---- MODULE Spec2Model ----
(***************************************************************************)
(* Model of youtube_to_xml: the timestamp codec (time_utils.py) and the    *)
(* chapter segmenter (file_parser.py, parse_transcript_document).          *)
(*                                                                         *)
(* A Python str is a sequence of one-character strings.  A Python float is *)
(* a record [kind, num]: kind "fin" carries num, a count of 1/SubSecond    *)
(* seconds; kind "inf" is math.inf.                                        *)
(***************************************************************************)
EXTENDS Integers, Sequences, FiniteSets, TLC

\* ------------------------------------------------------------------ bounds
MaxLines == 9
MaxShort == 4
MaxBlankAt == 2
SubSecond == 2
MaxHours == 1001

\* most colon-separated fields of a string given to timestamp_to_seconds
MaxFields == 4

\* most non-blank lines of a file given to the command line
MaxCliLines == 4

\* longest raw text given to _sanitize_transcript_spacing alone
MaxRawLen == 6

\* largest magnitude, in 1/SubSecond seconds, of a finite float given to
\* seconds_to_timestamp where any float is given
MaxUnits == 130

\* chapters of a provider's list and lines of a provider's transcript, at most
MaxUrlItems == 3

\* their start times and timestamps, in seconds, at most
MaxUrlTime == 3

\* most lines of a window given to _convert_string_lines_to_transcript_objects
MaxWalkLines == 5

\* most fragments of a message given to map_yt_dlp_exception
MaxMsgParts == 3

\* ------------------------------------------------------- program constants
SECONDS_PER_HOUR == 3600
SECONDS_PER_MINUTE == 60
TIMESTAMP_PARTS_SHORT == 2
TIMESTAMP_PARTS_LONG == 3
LINES_FOR_CHAPTER_BOUNDARY == 2
MINIMUM_LINES_REQUIRED == 3

\* ------------------------------------------------------------ str helpers
DigitChars == <<"0", "1", "2", "3", "4", "5", "6", "7", "8", "9">>

IsDigit(c) == \E d \in 1..10 : DigitChars[d] = c

DigitVal(c) == (CHOOSE d \in 1..10 : DigitChars[d] = c) - 1

\* [0-5]
IsDigit05(c) == IsDigit(c) /\ DigitVal(c) <= 5

\* characters str.strip() / str.split() treat as whitespace
Whitespace == {" ", "\t", "\n", "\r"}

\* characters str.splitlines() treats as line boundaries
LineBreaks == {"\n", "\r"}

RECURSIVE LStrip(_)
LStrip(s) ==
    IF s = <<>> THEN <<>>
    ELSE IF Head(s) \in Whitespace THEN LStrip(Tail(s))
    ELSE s

RECURSIVE RStrip(_)
RStrip(s) ==
    IF s = <<>> THEN <<>>
    ELSE IF s[Len(s)] \in Whitespace THEN RStrip(SubSeq(s, 1, Len(s) - 1))
    ELSE s

\* str.strip()
Strip(s) == RStrip(LStrip(s))

\* str.splitlines(): cur is the line being collected; "\r\n" is one boundary;
\* a final line without a boundary is kept, an empty tail is not
RECURSIVE SplitLinesFrom(_, _)
SplitLinesFrom(s, cur) ==
    IF s = <<>> THEN (IF cur = <<>> THEN <<>> ELSE <<cur>>)
    ELSE IF Head(s) = "\r" /\ Len(s) >= 2 /\ s[2] = "\n"
         THEN <<cur>> \o SplitLinesFrom(Tail(Tail(s)), <<>>)
    ELSE IF Head(s) \in LineBreaks
         THEN <<cur>> \o SplitLinesFrom(Tail(s), <<>>)
    ELSE SplitLinesFrom(Tail(s), Append(cur, Head(s)))

SplitLines(s) == SplitLinesFrom(s, <<>>)

\* str.split(): the maximal runs of non-whitespace characters
RECURSIVE SplitWordsFrom(_, _)
SplitWordsFrom(s, cur) ==
    IF s = <<>> THEN (IF cur = <<>> THEN <<>> ELSE <<cur>>)
    ELSE IF Head(s) \in Whitespace
         THEN (IF cur = <<>> THEN <<>> ELSE <<cur>>) \o SplitWordsFrom(Tail(s), <<>>)
    ELSE SplitWordsFrom(Tail(s), Append(cur, Head(s)))

SplitWords(s) == SplitWordsFrom(s, <<>>)

\* sep.join(parts)
RECURSIVE Join(_, _)
Join(sep, parts) ==
    IF parts = <<>> THEN <<>>
    ELSE IF Len(parts) = 1 THEN parts[1]
    ELSE parts[1] \o sep \o Join(sep, Tail(parts))

\* str.split(":")
RECURSIVE SplitColonFrom(_, _)
SplitColonFrom(s, cur) ==
    IF s = <<>> THEN <<cur>>
    ELSE IF Head(s) = ":" THEN <<cur>> \o SplitColonFrom(Tail(s), <<>>)
    ELSE SplitColonFrom(Tail(s), Append(cur, Head(s)))

SplitColon(s) == SplitColonFrom(s, <<>>)

\* int(str) of a string of decimal digits
RECURSIVE ParseInt(_)
ParseInt(s) ==
    IF s = <<>> THEN 0
    ELSE ParseInt(SubSeq(s, 1, Len(s) - 1)) * 10 + DigitVal(s[Len(s)])

\* f"{n}" of a non-negative int
RECURSIVE IntToStr(_)
IntToStr(n) ==
    IF n < 10 THEN <<DigitChars[n + 1]>>
    ELSE IntToStr(n \div 10) \o <<DigitChars[(n % 10) + 1]>>

\* f"{n:02d}" of a non-negative int
Pad2(n) == IF n < 10 THEN <<"0">> \o IntToStr(n) ELSE IntToStr(n)

\* ----------------------------------------------------------------- floats
FloatOfInt(n) == [kind |-> "fin", num |-> n * SubSecond]

inf == [kind |-> "inf", num |-> 0]

\* float("-inf") and float("nan")
neg_inf == [kind |-> "-inf", num |-> 0]

nan == [kind |-> "nan", num |-> 0]

\* math.isfinite
IsFinite(x) == x.kind = "fin"

\* a < b and a <= b on floats
FloatLess(a, b) ==
    IF a.kind = "fin" /\ b.kind = "fin" THEN a.num < b.num
    ELSE a.kind = "fin" /\ b.kind = "inf"

\* mutant of FloatLessEq: the comparison is strict
FloatLessEqStrict(a, b) ==
    IF a.kind = "fin" /\ b.kind = "fin" THEN a.num < b.num
    ELSE b.kind = "inf" /\ a.kind = "fin"

FloatLessEq(a, b) ==
    IF a.kind = "fin" /\ b.kind = "fin" THEN a.num <= b.num
    ELSE b.kind = "inf"

\* int(seconds) of a finite float: truncation toward zero
IntOfFloat(x) ==
    IF x.num >= 0 THEN x.num \div SubSecond ELSE -((-x.num) \div SubSecond)

\* ------------------------------------------------------------- time_utils
\* TIMESTAMP_PATTERN body: \d{1,2}:[0-5]\d(:[0-5]\d)? | \d{3}:[0-5]\d:[0-5]\d
\* mutant of MinSecAt: the tens digit of minutes and seconds is any digit
MinSecAtAnyDigit(s, k) == s[k] = ":" /\ IsDigit(s[k + 1]) /\ IsDigit(s[k + 2])

MinSecAt(s, k) == s[k] = ":" /\ IsDigit05(s[k + 1]) /\ IsDigit(s[k + 2])

PatternBody(s) ==
    \/ Len(s) = 4 /\ IsDigit(s[1]) /\ MinSecAt(s, 2)
    \/ Len(s) = 5 /\ IsDigit(s[1]) /\ IsDigit(s[2]) /\ MinSecAt(s, 3)
    \/ Len(s) = 7 /\ IsDigit(s[1]) /\ MinSecAt(s, 2) /\ MinSecAt(s, 5)
    \/ Len(s) = 8 /\ IsDigit(s[1]) /\ IsDigit(s[2]) /\ MinSecAt(s, 3) /\ MinSecAt(s, 6)
    \/ Len(s) = 9 /\ IsDigit(s[1]) /\ IsDigit(s[2]) /\ IsDigit(s[3])
                  /\ MinSecAt(s, 4) /\ MinSecAt(s, 7)

\* TIMESTAMP_PATTERN.match(s): ^...$ where $ also matches before a final "\n"
TimestampPatternMatch(s) ==
    \/ PatternBody(s)
    \/ Len(s) > 0 /\ s[Len(s)] = "\n" /\ PatternBody(SubSeq(s, 1, Len(s) - 1))

\* An exception is its class, the fixed part of its message and the string
\* the message interpolates (empty when it interpolates none).
NoError == [kind |-> "none", msg |-> "", arg |-> <<>>]

\* FileInvalidFormatError(f"Invalid timestamp format: {timestamp_str}")
InvalidTimestamp(timestamp_str) ==
    [kind |-> "FileInvalidFormatError", msg |-> "Invalid timestamp format: ",
     arg |-> timestamp_str]

\* mutant of timestamp_to_seconds: the hours count as minutes
timestamp_to_seconds_hours_as_minutes(timestamp_str) ==
    LET ts == Strip(timestamp_str)
        parts == SplitColon(ts)
    IN  IF ~TimestampPatternMatch(ts)
        THEN [err |-> InvalidTimestamp(timestamp_str), value |-> FloatOfInt(0)]
        ELSE IF Len(parts) = TIMESTAMP_PARTS_SHORT
        THEN [err |-> NoError,
              value |-> FloatOfInt(ParseInt(parts[1]) * SECONDS_PER_MINUTE
                                   + ParseInt(parts[2]))]
        ELSE [err |-> NoError,
              value |-> FloatOfInt(ParseInt(parts[1]) * SECONDS_PER_MINUTE
                                   + ParseInt(parts[2]) * SECONDS_PER_MINUTE
                                   + ParseInt(parts[3]))]

\* timestamp_to_seconds: [err, value]
timestamp_to_seconds(timestamp_str) ==
    LET ts == Strip(timestamp_str)
        parts == SplitColon(ts)
    IN  IF ~TimestampPatternMatch(ts)
        THEN [err |-> InvalidTimestamp(timestamp_str), value |-> FloatOfInt(0)]
        ELSE IF Len(parts) = TIMESTAMP_PARTS_SHORT
        THEN [err |-> NoError,
              value |-> FloatOfInt(ParseInt(parts[1]) * SECONDS_PER_MINUTE
                                   + ParseInt(parts[2]))]
        ELSE IF Len(parts) = TIMESTAMP_PARTS_LONG
        THEN [err |-> NoError,
              value |-> FloatOfInt(ParseInt(parts[1]) * SECONDS_PER_HOUR
                                   + ParseInt(parts[2]) * SECONDS_PER_MINUTE
                                   + ParseInt(parts[3]))]
        ELSE [err |-> InvalidTimestamp(timestamp_str), value |-> FloatOfInt(0)]

ValueErrorSeconds ==
    [kind |-> "ValueError", msg |-> "seconds must be finite and >= 0", arg |-> <<>>]

\* mutant of seconds_to_timestamp: minutes and seconds are not zero-padded
seconds_to_timestamp_unpadded(seconds) ==
    IF ~IsFinite(seconds) \/ seconds.num < 0
    THEN [err |-> ValueErrorSeconds, value |-> <<>>]
    ELSE LET total_seconds == IntOfFloat(seconds)
             hours == total_seconds \div SECONDS_PER_HOUR
             minutes == (total_seconds % SECONDS_PER_HOUR) \div SECONDS_PER_MINUTE
             secs == total_seconds % SECONDS_PER_MINUTE
         IN  IF hours > 0
             THEN [err |-> NoError,
                   value |-> IntToStr(hours) \o <<":">> \o IntToStr(minutes)
                             \o <<":">> \o IntToStr(secs)]
             ELSE [err |-> NoError,
                   value |-> IntToStr(minutes) \o <<":">> \o IntToStr(secs)]

\* mutant of seconds_to_timestamp: the fraction is rounded up
seconds_to_timestamp_ceil(seconds) ==
    IF ~IsFinite(seconds) \/ seconds.num < 0
    THEN [err |-> ValueErrorSeconds, value |-> <<>>]
    ELSE LET total_seconds == (seconds.num + SubSecond - 1) \div SubSecond
             hours == total_seconds \div SECONDS_PER_HOUR
             minutes == (total_seconds % SECONDS_PER_HOUR) \div SECONDS_PER_MINUTE
             secs == total_seconds % SECONDS_PER_MINUTE
         IN  IF hours > 0
             THEN [err |-> NoError,
                   value |-> IntToStr(hours) \o <<":">> \o Pad2(minutes)
                             \o <<":">> \o Pad2(secs)]
             ELSE [err |-> NoError,
                   value |-> IntToStr(minutes) \o <<":">> \o Pad2(secs)]

\* mutant of seconds_to_timestamp: the sign is tested after int()
seconds_to_timestamp_sign_after_int(seconds) ==
    IF ~IsFinite(seconds) \/ IntOfFloat(seconds) < 0
    THEN [err |-> ValueErrorSeconds, value |-> <<>>]
    ELSE LET total_seconds == IntOfFloat(seconds)
             hours == total_seconds \div SECONDS_PER_HOUR
             minutes == (total_seconds % SECONDS_PER_HOUR) \div SECONDS_PER_MINUTE
             secs == total_seconds % SECONDS_PER_MINUTE
         IN  IF hours > 0
             THEN [err |-> NoError,
                   value |-> IntToStr(hours) \o <<":">> \o Pad2(minutes)
                             \o <<":">> \o Pad2(secs)]
             ELSE [err |-> NoError,
                   value |-> IntToStr(minutes) \o <<":">> \o Pad2(secs)]

\* mutant of seconds_to_timestamp: the seconds are rendered before the minutes
seconds_to_timestamp_seconds_first(seconds) ==
    IF ~IsFinite(seconds) \/ seconds.num < 0
    THEN [err |-> ValueErrorSeconds, value |-> <<>>]
    ELSE LET total_seconds == IntOfFloat(seconds)
             hours == total_seconds \div SECONDS_PER_HOUR
             minutes == (total_seconds % SECONDS_PER_HOUR) \div SECONDS_PER_MINUTE
             secs == total_seconds % SECONDS_PER_MINUTE
         IN  IF hours > 0
             THEN [err |-> NoError,
                   value |-> IntToStr(hours) \o <<":">> \o Pad2(secs)
                             \o <<":">> \o Pad2(minutes)]
             ELSE [err |-> NoError,
                   value |-> IntToStr(secs) \o <<":">> \o Pad2(minutes)]

\* mutant of seconds_to_timestamp: the hours are written as minutes
seconds_to_timestamp_minutes_only(seconds) ==
    IF ~IsFinite(seconds) \/ seconds.num < 0
    THEN [err |-> ValueErrorSeconds, value |-> <<>>]
    ELSE LET total_seconds == IntOfFloat(seconds)
             minutes == total_seconds \div SECONDS_PER_MINUTE
             secs == total_seconds % SECONDS_PER_MINUTE
         IN  [err |-> NoError,
              value |-> IntToStr(minutes) \o <<":">> \o Pad2(secs)]


\* seconds_to_timestamp: [err, value]
seconds_to_timestamp(seconds) ==
    IF ~IsFinite(seconds) \/ seconds.num < 0
    THEN [err |-> ValueErrorSeconds, value |-> <<>>]
    ELSE LET total_seconds == IntOfFloat(seconds)
             hours == total_seconds \div SECONDS_PER_HOUR
             minutes == (total_seconds % SECONDS_PER_HOUR) \div SECONDS_PER_MINUTE
             secs == total_seconds % SECONDS_PER_MINUTE
         IN  IF hours > 0
             THEN [err |-> NoError,
                   value |-> IntToStr(hours) \o <<":">> \o Pad2(minutes)
                             \o <<":">> \o Pad2(secs)]
             ELSE [err |-> NoError,
                   value |-> IntToStr(minutes) \o <<":">> \o Pad2(secs)]

\* ------------------------------------------------------------ file_parser
\* Sequences are 1-based: Python index k is index k + 1 here.

EmptyError == [kind |-> "FileEmptyError", msg |-> "Your file is empty", arg |-> <<>>]

FormatError(m) == [kind |-> "FileInvalidFormatError", msg |-> m, arg |-> <<>>]

IndexError == [kind |-> "IndexError", msg |-> "list index out of range", arg |-> <<>>]

\* [line for line in lines if line.strip()]
RECURSIVE NonBlank(_)
NonBlank(lines) ==
    IF lines = <<>> THEN <<>>
    ELSE IF Strip(Head(lines)) # <<>> THEN <<Head(lines)>> \o NonBlank(Tail(lines))
    ELSE NonBlank(Tail(lines))

\* mutant of CollapseEach: the lines are only stripped
RECURSIVE StripEach(_)
StripEach(lines) ==
    IF lines = <<>> THEN <<>>
    ELSE <<Strip(Head(lines))>> \o StripEach(Tail(lines))

\* [" ".join(line.split()) for line in lines]
RECURSIVE CollapseEach(_)
CollapseEach(lines) ==
    IF lines = <<>> THEN <<>>
    ELSE <<Join(<<" ">>, SplitWords(Head(lines)))>> \o CollapseEach(Tail(lines))

_sanitize_transcript_spacing(raw_transcript) ==
    Join(<<"\n">>, CollapseEach(NonBlank(SplitLines(raw_transcript))))

IsTimestampLine(line) == TimestampPatternMatch(Strip(line))

\* find_timestamps: the indices of the lines that match, ascending
RECURSIVE FindTimestampsFrom(_, _)
FindTimestampsFrom(lines, k) ==
    IF k > Len(lines) THEN <<>>
    ELSE IF IsTimestampLine(lines[k]) THEN <<k>> \o FindTimestampsFrom(lines, k + 1)
    ELSE FindTimestampsFrom(lines, k + 1)

find_timestamps(lines) == FindTimestampsFrom(lines, 1)

\* mutant of validate_transcript_format: the second line is checked before
\* the first
validate_second_line_first(raw_transcript) ==
    LET non_empty_lines == NonBlank(SplitLines(raw_transcript))
    IN  IF Strip(raw_transcript) = <<>> THEN EmptyError
        ELSE IF Len(non_empty_lines) < MINIMUM_LINES_REQUIRED
        THEN FormatError("File must have at least 3 lines: chapter title, timestamp, transcript")
        ELSE IF ~IsTimestampLine(non_empty_lines[2])
        THEN FormatError("Second line must be a timestamp")
        ELSE IF IsTimestampLine(non_empty_lines[1])
        THEN FormatError("First line must be chapter title, not timestamp")
        ELSE IF IsTimestampLine(non_empty_lines[3])
        THEN FormatError("Third line must be transcript text, not timestamp")
        ELSE NoError

\* validate_transcript_format: the error raised, NoError when it returns
validate_transcript_format(raw_transcript) ==
    LET non_empty_lines == NonBlank(SplitLines(raw_transcript))
    IN  IF Strip(raw_transcript) = <<>> THEN EmptyError
        ELSE IF Len(non_empty_lines) < MINIMUM_LINES_REQUIRED
        THEN FormatError("File must have at least 3 lines: chapter title, timestamp, transcript")
        ELSE IF IsTimestampLine(non_empty_lines[1])
        THEN FormatError("First line must be chapter title, not timestamp")
        ELSE IF ~IsTimestampLine(non_empty_lines[2])
        THEN FormatError("Second line must be a timestamp")
        ELSE IF IsTimestampLine(non_empty_lines[3])
        THEN FormatError("Third line must be transcript text, not timestamp")
        ELSE NoError

\* mutant of ChapterData: the start time is converted from the title line
ChapterDataFromTitle(lines, title_idx, ts_idx) ==
    LET conv == timestamp_to_seconds(lines[title_idx])
    IN  [title_index |-> title_idx,
         title |-> lines[title_idx],
         start_time |-> conv.value,
         transcript_start |-> ts_idx,
         err |-> conv.err]


\* one chapter's metadata dict; err is the error its timestamp conversion raises
ChapterData(lines, title_idx, ts_idx) ==
    LET conv == timestamp_to_seconds(lines[ts_idx])
    IN  [title_index |-> title_idx,
         title |-> lines[title_idx],
         start_time |-> conv.value,
         transcript_start |-> ts_idx,
         err |-> conv.err]

\* _find_first_chapter: <<>> is None
_find_first_chapter(lines, timestamp_indices) ==
    IF IsTimestampLine(lines[1]) THEN <<>>
    ELSE <<ChapterData(lines, 1, timestamp_indices[1])>>

\* mutant of FindSubsequentFrom: the gap is counted without the "- 1"
RECURSIVE FindSubsequentFromOffByOne(_, _, _)
FindSubsequentFromOffByOne(lines, timestamp_indices, i) ==
    IF i > Len(timestamp_indices) - 1 THEN <<>>
    ELSE LET current_idx == timestamp_indices[i]
             next_idx == timestamp_indices[i + 1]
             rest == FindSubsequentFromOffByOne(lines, timestamp_indices, i + 1)
         IN  IF next_idx - current_idx = LINES_FOR_CHAPTER_BOUNDARY
             THEN <<ChapterData(lines, next_idx - 1, next_idx)>> \o rest
             ELSE rest

\* _find_subsequent_chapters, from pair i on
RECURSIVE FindSubsequentFrom(_, _, _)
FindSubsequentFrom(lines, timestamp_indices, i) ==
    IF i > Len(timestamp_indices) - 1 THEN <<>>
    ELSE LET current_idx == timestamp_indices[i]
             next_idx == timestamp_indices[i + 1]
             rest == FindSubsequentFrom(lines, timestamp_indices, i + 1)
         IN  IF next_idx - current_idx - 1 = LINES_FOR_CHAPTER_BOUNDARY
             THEN <<ChapterData(lines, next_idx - 1, next_idx)>> \o rest
             ELSE rest

_find_subsequent_chapters(lines, timestamp_indices) ==
    FindSubsequentFrom(lines, timestamp_indices, 1)

\* mutant of FoundChapters: the opening chapter is appended last
FoundChaptersOpeningLast(lines, timestamp_indices) ==
    _find_subsequent_chapters(lines, timestamp_indices)
    \o _find_first_chapter(lines, timestamp_indices)

\* chapters_metadata as parse_transcript_document assembles it
FoundChapters(lines, timestamp_indices) ==
    _find_first_chapter(lines, timestamp_indices)
    \o _find_subsequent_chapters(lines, timestamp_indices)

\* mutant of WindowStart: the window opens after the chapter's own timestamp
\* line
WindowStartAfterTimestamp(metadata, n) == metadata[n].transcript_start + 1


\* transcript_start .. transcript_end of chapter n: its window of lines,
\* transcript_end excluded
WindowStart(metadata, n) == metadata[n].transcript_start

\* mutant of WindowEnd: the window runs up to the next chapter's timestamp line
WindowEndAtNextTimestamp(metadata, lines, n) ==
    IF n < Len(metadata) THEN metadata[n + 1].transcript_start
    ELSE Len(lines) + 1

\* mutant of WindowEnd: every window runs to the last line
WindowEndAtLastLine(metadata, lines, n) == Len(lines) + 1


WindowEnd(metadata, lines, n) ==
    IF n < Len(metadata) THEN metadata[n + 1].title_index
    ELSE Len(lines) + 1

\* mutant of EndTime: every chapter ends at infinity
EndTimeAlwaysInf(metadata, n) == inf

\* end_time of chapter n
EndTime(metadata, n) ==
    IF n < Len(metadata) THEN metadata[n + 1].start_time
    ELSE inf

\* the first error a list of metadata dicts carries
RECURSIVE FirstErr(_)
FirstErr(items) ==
    IF items = <<>> THEN NoError
    ELSE IF Head(items).err # NoError THEN Head(items).err
    ELSE FirstErr(Tail(items))

\* mutant of ConvertFrom: after two consecutive timestamps the index advances
\* by 2, past the second timestamp
RECURSIVE ConvertFromSkipping(_, _, _)
ConvertFromSkipping(raw_lines, i, result) ==
    IF ~(i <= Len(raw_lines)) THEN result
    ELSE IF IsTimestampLine(raw_lines[i])
    THEN LET timestamp_str == raw_lines[i]
             conv == timestamp_to_seconds(timestamp_str)
             Line(text) == [timestamp |-> conv.value, text |-> text, err |-> conv.err]
         IN  IF i + 1 <= Len(raw_lines)
             THEN IF IsTimestampLine(raw_lines[i + 1])
                  THEN ConvertFromSkipping(raw_lines, i + 2, Append(result, Line(<<>>)))
                  ELSE ConvertFromSkipping(raw_lines, i + 2,
                                           Append(result, Line(raw_lines[i + 1])))
             ELSE ConvertFromSkipping(raw_lines, i + 1, Append(result, Line(<<>>)))
    ELSE ConvertFromSkipping(raw_lines, i + 1, result)

\* mutant of ConvertFrom: the line after a timestamp is its text whether or
\* not it is a timestamp itself
RECURSIVE ConvertFromGreedy(_, _, _)
ConvertFromGreedy(raw_lines, i, result) ==
    IF ~(i <= Len(raw_lines)) THEN result
    ELSE IF IsTimestampLine(raw_lines[i])
    THEN LET timestamp_str == raw_lines[i]
             conv == timestamp_to_seconds(timestamp_str)
             Line(text) == [timestamp |-> conv.value, text |-> text, err |-> conv.err]
         IN  IF i + 1 <= Len(raw_lines)
             THEN ConvertFromGreedy(raw_lines, i + 2, Append(result, Line(raw_lines[i + 1])))
             ELSE ConvertFromGreedy(raw_lines, i + 1, Append(result, Line(<<>>)))
    ELSE ConvertFromGreedy(raw_lines, i + 1, result)

\* _convert_string_lines_to_transcript_objects: the while loop from index i
RECURSIVE ConvertFrom(_, _, _)
ConvertFrom(raw_lines, i, result) ==
    IF ~(i <= Len(raw_lines)) THEN result
    ELSE IF IsTimestampLine(raw_lines[i])
    THEN LET timestamp_str == raw_lines[i]
             conv == timestamp_to_seconds(timestamp_str)
             Line(text) == [timestamp |-> conv.value, text |-> text, err |-> conv.err]
         IN  IF i + 1 <= Len(raw_lines)
             THEN IF IsTimestampLine(raw_lines[i + 1])
                  THEN ConvertFrom(raw_lines, i + 1, Append(result, Line(<<>>)))
                  ELSE ConvertFrom(raw_lines, i + 2, Append(result, Line(raw_lines[i + 1])))
             ELSE ConvertFrom(raw_lines, i + 1, Append(result, Line(<<>>)))
    ELSE ConvertFrom(raw_lines, i + 1, result)

\* obj put into a list that is sorted by timestamp
RECURSIVE InsertByTimestamp(_, _)
InsertByTimestamp(obj, sorted) ==
    IF sorted = <<>> THEN <<obj>>
    ELSE IF FloatLess(obj.timestamp, Head(sorted).timestamp) THEN <<obj>> \o sorted
    ELSE <<Head(sorted)>> \o InsertByTimestamp(obj, Tail(sorted))

RECURSIVE SortByTimestamp(_)
SortByTimestamp(objs) ==
    IF objs = <<>> THEN <<>>
    ELSE InsertByTimestamp(objs[Len(objs)],
                           SortByTimestamp(SubSeq(objs, 1, Len(objs) - 1)))

\* mutant of _convert_string_lines_to_transcript_objects: the result is
\* sorted by timestamp
_convert_sorted_by_timestamp(raw_lines) ==
    SortByTimestamp(ConvertFrom(raw_lines, 1, <<>>))

_convert_string_lines_to_transcript_objects(raw_lines) ==
    ConvertFrom(raw_lines, 1, <<>>)

\* mutant of TranscriptLines: the objects in reverse order
RECURSIVE TranscriptLinesReversed(_)
TranscriptLinesReversed(objs) ==
    IF objs = <<>> THEN <<>>
    ELSE TranscriptLinesReversed(Tail(objs))
         \o <<[timestamp |-> Head(objs).timestamp, text |-> Head(objs).text]>>


\* TranscriptLine(timestamp, text) objects of the converted lines
RECURSIVE TranscriptLines(_)
TranscriptLines(objs) ==
    IF objs = <<>> THEN <<>>
    ELSE <<[timestamp |-> Head(objs).timestamp, text |-> Head(objs).text]>>
         \o TranscriptLines(Tail(objs))

\* ---------------------------------------------------- parse_transcript_file
\* mutant of ExtractFrom: chapter start times are not compared
RECURSIVE ExtractFromUnchecked(_, _, _, _)
ExtractFromUnchecked(lines, chapter_metadata, k, result_chapters) ==
    IF k > Len(chapter_metadata) THEN [err |-> NoError, value |-> result_chapters]
    ELSE LET chapter_data == chapter_metadata[k]
             transcript_end == WindowEnd(chapter_metadata, lines, k)
             end_time == EndTime(chapter_metadata, k)
             start_idx == WindowStart(chapter_metadata, k)
         IN  ExtractFromUnchecked(
                 lines, chapter_metadata, k + 1,
                 Append(result_chapters,
                        [title |-> chapter_data.title,
                         start_time |-> chapter_data.start_time,
                         end_time |-> end_time,
                         transcript_lines |->
                             SubSeq(lines, start_idx, transcript_end - 1)]))

\* the loop of _extract_transcript_lines_for_chapters from chapter k on;
\* a legacy Chapter keeps its window of lines as strings
RECURSIVE ExtractFrom(_, _, _, _)
ExtractFrom(lines, chapter_metadata, k, result_chapters) ==
    IF k > Len(chapter_metadata) THEN [err |-> NoError, value |-> result_chapters]
    ELSE LET chapter_data == chapter_metadata[k]
             transcript_end == WindowEnd(chapter_metadata, lines, k)
             end_time == EndTime(chapter_metadata, k)
             start_idx == WindowStart(chapter_metadata, k)
         IN  IF k < Len(chapter_metadata)
                /\ FloatLessEq(end_time, chapter_data.start_time)
             THEN [err |-> FormatError("Subsequent chapter timestamps must be strictly increasing"),
                   value |-> result_chapters]
             ELSE ExtractFrom(
                      lines, chapter_metadata, k + 1,
                      Append(result_chapters,
                             [title |-> chapter_data.title,
                              start_time |-> chapter_data.start_time,
                              end_time |-> end_time,
                              transcript_lines |->
                                  SubSeq(lines, start_idx, transcript_end - 1)]))

_extract_transcript_lines_for_chapters(lines, chapter_metadata) ==
    ExtractFrom(lines, chapter_metadata, 1, <<>>)

\* what a call that raised err leaves
Raised(err) == [err |-> err, value |-> <<>>, run |-> TRUE, calls |-> <<>>]

\* parse_transcript_file: [err, value, run, calls]
parse_transcript_file(raw) ==
    LET invalid == validate_transcript_format(raw)
        lines == NonBlank(SplitLines(raw))
        indices == find_timestamps(lines)
        found == FoundChapters(lines, indices)
        extracted == _extract_transcript_lines_for_chapters(lines, found)
    IN  IF invalid # NoError THEN Raised(invalid)
        ELSE IF indices = <<>> /\ ~IsTimestampLine(lines[1]) THEN Raised(IndexError)
        ELSE IF FirstErr(found) # NoError THEN Raised(FirstErr(found))
        ELSE IF extracted.err # NoError THEN Raised(extracted.err)
        ELSE [err |-> NoError, value |-> extracted.value, run |-> TRUE,
              calls |-> <<>>]

\* ------------------------------------------------------------ xml_builder
\* VideoMetadata(): the metadata of a document parsed from a file
VideoMetadata ==
    [video_title |-> <<>>, video_published |-> <<>>, video_duration |-> 0,
     video_url |-> <<>>]

\* TranscriptDocument(metadata=..., chapters=...); a Python value carries its type
TranscriptDocument(metadata, chapters) ==
    [type |-> "TranscriptDocument", metadata |-> metadata, chapters |-> chapters]

\* a Python list
ListOf(items) == [type |-> "list", items |-> items]

AttributeError ==
    [kind |-> "AttributeError", msg |-> "'list' object has no attribute 'metadata'",
     arg |-> <<>>]

\* format_video_published and format_video_duration are imported from
\* time_utils, which does not define them; their tests fix the results for
\* the empty date and the zero duration, the only ones passed here.
format_video_published(video_published) == <<>>

format_video_duration(video_duration) == <<>>

\* _create_transcript_root_element: the attributes of the root
_create_transcript_root_element(title, published, duration, url) ==
    [video_title |-> title, video_published |-> published,
     video_duration |-> duration, video_url |-> url]

\* _create_chapter_element: [err, value, calls]; calls are the arguments given
\* to seconds_to_timestamp, each with the attribute it was read from
_create_chapter_element(title, start_time) ==
    LET st == seconds_to_timestamp(start_time)
    IN  [err |-> st.err,
         value |-> [title |-> title, start_time |-> st.value, text |-> <<>>],
         calls |-> <<[attr |-> "start_time", value |-> start_time]>>]

\* the loop of _format_transcript_lines from line k on
RECURSIVE FormatLinesFrom(_, _, _, _)
FormatLinesFrom(lines_in, k, lines, calls) ==
    IF k > Len(lines_in) THEN [err |-> NoError, value |-> lines, calls |-> calls]
    ELSE LET line == lines_in[k]
             ts == seconds_to_timestamp(line.timestamp)
             called == Append(calls, [attr |-> "timestamp", value |-> line.timestamp])
         IN  IF ts.err # NoError
             THEN [err |-> ts.err, value |-> lines, calls |-> called]
             ELSE FormatLinesFrom(lines_in, k + 1,
                                  lines \o <<ts.value, line.text>>, called)

_format_transcript_lines(lines_in) == FormatLinesFrom(lines_in, 1, <<>>, <<>>)

INDENT == <<" ", " ", " ", " ", " ", " ">>

\* _add_indented_content: the text of the element
_add_indented_content(lines) ==
    IF lines = <<>> THEN <<>>
    ELSE <<"\n">> \o Join(<<"\n">>, [k \in 1..Len(lines) |-> INDENT \o lines[k]])
         \o <<"\n", " ", " ", " ", " ">>

\* mutant of EmitChaptersFrom: the chapter element is given the end time
RECURSIVE EmitChaptersFromEndTime(_, _, _, _)
EmitChaptersFromEndTime(chapters, k, elems, calls) ==
    IF k > Len(chapters) THEN [err |-> NoError, value |-> elems, calls |-> calls]
    ELSE LET chapter == chapters[k]
             elem == _create_chapter_element(chapter.title, chapter.end_time)
             fl == _format_transcript_lines(chapter.transcript_lines)
         IN  IF elem.err # NoError
             THEN [err |-> elem.err, value |-> elems, calls |-> calls \o elem.calls]
             ELSE IF chapter.transcript_lines = <<>>
             THEN EmitChaptersFromEndTime(chapters, k + 1, Append(elems, elem.value),
                                          calls \o elem.calls)
             ELSE IF fl.err # NoError
             THEN [err |-> fl.err, value |-> elems,
                   calls |-> calls \o elem.calls \o fl.calls]
             ELSE EmitChaptersFromEndTime(
                      chapters, k + 1,
                      Append(elems, [elem.value EXCEPT
                                        !.text = _add_indented_content(fl.value)]),
                      calls \o elem.calls \o fl.calls)

\* the loop of transcript_to_xml over document.chapters from chapter k on
RECURSIVE EmitChaptersFrom(_, _, _, _)
EmitChaptersFrom(chapters, k, elems, calls) ==
    IF k > Len(chapters) THEN [err |-> NoError, value |-> elems, calls |-> calls]
    ELSE LET chapter == chapters[k]
             elem == _create_chapter_element(chapter.title, chapter.start_time)
             fl == _format_transcript_lines(chapter.transcript_lines)
         IN  IF elem.err # NoError
             THEN [err |-> elem.err, value |-> elems, calls |-> calls \o elem.calls]
             ELSE IF chapter.transcript_lines = <<>>
             THEN EmitChaptersFrom(chapters, k + 1, Append(elems, elem.value),
                                   calls \o elem.calls)
             ELSE IF fl.err # NoError
             THEN [err |-> fl.err, value |-> elems,
                   calls |-> calls \o elem.calls \o fl.calls]
             ELSE EmitChaptersFrom(
                      chapters, k + 1,
                      Append(elems, [elem.value EXCEPT
                                        !.text = _add_indented_content(fl.value)]),
                      calls \o elem.calls \o fl.calls)

\* transcript_to_xml: [err, value, run, calls]; the value is the element tree
\* that _finalise_xml serializes
transcript_to_xml(doc) ==
    IF doc.type # "TranscriptDocument"
    THEN [err |-> AttributeError, value |-> <<>>, run |-> TRUE, calls |-> <<>>]
    ELSE LET transcript_root ==
                 _create_transcript_root_element(
                     doc.metadata.video_title,
                     format_video_published(doc.metadata.video_published),
                     format_video_duration(doc.metadata.video_duration),
                     doc.metadata.video_url)
             r == EmitChaptersFrom(doc.chapters, 1, <<>>, <<>>)
         IN  [err |-> r.err,
              value |-> IF r.err = NoError
                        THEN <<transcript_root, r.value>>
                        ELSE <<>>,
              run |-> TRUE,
              calls |-> r.calls]

\* -------------------------------------------------------------------- cli
LowerLetters ==
    <<"a", "b", "c", "d", "e", "f", "g", "h", "i", "j", "k", "l", "m",
      "n", "o", "p", "q", "r", "s", "t", "u", "v", "w", "x", "y", "z">>

UpperLetters ==
    <<"A", "B", "C", "D", "E", "F", "G", "H", "I", "J", "K", "L", "M",
      "N", "O", "P", "Q", "R", "S", "T", "U", "V", "W", "X", "Y", "Z">>

\* str.lower() and str.isalnum() of one character
LowerChar(c) ==
    IF \E k \in 1..Len(UpperLetters) : UpperLetters[k] = c
    THEN LowerLetters[CHOOSE k \in 1..Len(UpperLetters) : UpperLetters[k] = c]
    ELSE c

IsAlnum(c) ==
    \/ IsDigit(c)
    \/ \E k \in 1..Len(LowerLetters) : LowerLetters[k] = c \/ UpperLetters[k] = c

Lower(str) == [k \in 1..Len(str) |-> LowerChar(str[k])]

\* pattern in str
Contains(str, pattern) ==
    \E k \in 1..(Len(str) - Len(pattern) + 1) :
        SubSeq(str, k, k + Len(pattern) - 1) = pattern

is_youtube_url(input_string) ==
    \/ Contains(Lower(input_string),
                <<"y", "o", "u", "t", "u", "b", "e", ".", "c", "o", "m">>)
    \/ Contains(Lower(input_string), <<"y", "o", "u", "t", "u", ".", "b", "e">>)

\* "".join(c if c.isalnum() or c in " -" else "" for c in sanitized)
RECURSIVE KeepFilenameChars(_)
KeepFilenameChars(str) ==
    IF str = <<>> THEN <<>>
    ELSE IF IsAlnum(Head(str)) \/ Head(str) \in {" ", "-"}
    THEN <<Head(str)>> \o KeepFilenameChars(Tail(str))
    ELSE KeepFilenameChars(Tail(str))

\* str.strip("-")
RECURSIVE StripDashes(_)
StripDashes(str) ==
    IF str = <<>> THEN <<>>
    ELSE IF Head(str) = "-" THEN StripDashes(Tail(str))
    ELSE IF str[Len(str)] = "-" THEN StripDashes(SubSeq(str, 1, Len(str) - 1))
    ELSE str

DotXml == <<".", "x", "m", "l">>

_sanitize_video_title_for_filename(video_title) ==
    LET kept == KeepFilenameChars(Lower(video_title))
        dashed == [k \in 1..Len(kept) |-> IF kept[k] = " " THEN "-" ELSE kept[k]]
        sanitized == StripDashes(dashed)
    IN  IF sanitized # <<>> THEN sanitized \o DotXml
        ELSE <<"t", "r", "a", "n", "s", "c", "r", "i", "p", "t">> \o DotXml

\* str.rfind(c), 1-based, 0 when c is not in str
LastIndexOf(str, c) ==
    IF \E k \in 1..Len(str) : str[k] = c
    THEN CHOOSE k \in 1..Len(str) : str[k] = c /\ \A j \in (k + 1)..Len(str) : str[j] # c
    ELSE 0

\* Path(p).name: the final component of the path
PathName(path) == SubSeq(path, LastIndexOf(path, "/") + 1, Len(path))

\* Path(p).stem: the name without its last suffix
PathStem(path) ==
    LET name == PathName(path)
        dot == LastIndexOf(name, ".")
    IN  IF 1 < dot /\ dot < Len(name) THEN SubSeq(name, 1, dot - 1) ELSE name

\* the URL* exceptions main catches
URLErrors ==
    {"URLBotProtectionError", "URLIncompleteError", "URLIsInvalidError",
     "URLNotYouTubeError", "URLRateLimitError", "URLTranscriptNotFoundError",
     "URLUnmappedError", "URLVideoUnavailableError"}

LOG_FILE == <<"y", "o", "u", "t", "u", "b", "e", "_", "t", "o", "_", "x", "m", "l",
              ".", "l", "o", "g">>

\* mutant of LinesWithin: a line at the chapter's end time is kept
RECURSIVE LinesWithinClosed(_, _, _)
LinesWithinClosed(lines, chapter_start_time, chapter_end_time) ==
    IF lines = <<>> THEN <<>>
    ELSE (IF /\ FloatLessEq(chapter_start_time, Head(lines).timestamp)
             /\ FloatLessEq(Head(lines).timestamp, chapter_end_time)
          THEN <<Head(lines)>>
          ELSE <<>>)
         \o LinesWithinClosed(Tail(lines), chapter_start_time, chapter_end_time)


\* ------------------------------------------------------------- url_parser
\* [line for line in transcript_lines
\*  if chapter_start_time <= line.timestamp < chapter_end_time]
RECURSIVE LinesWithin(_, _, _)
LinesWithin(lines, chapter_start_time, chapter_end_time) ==
    IF lines = <<>> THEN <<>>
    ELSE (IF /\ FloatLessEq(chapter_start_time, Head(lines).timestamp)
             /\ FloatLess(Head(lines).timestamp, chapter_end_time)
          THEN <<Head(lines)>>
          ELSE <<>>)
         \o LinesWithin(Tail(lines), chapter_start_time, chapter_end_time)

\* _assign_transcript_lines_to_chapters: the loop over chapter_dicts from
\* the k-th dict on
RECURSIVE AssignFrom(_, _, _)
AssignFrom(lines, dicts, k) ==
    IF k > Len(dicts) THEN <<>>
    ELSE LET chapter_start_time == dicts[k].start_time
             chapter_end_time == IF k + 1 <= Len(dicts) THEN dicts[k + 1].start_time
                                 ELSE inf
         IN  << [title |-> dicts[k].title,
                 start_time |-> chapter_start_time,
                 end_time |-> chapter_end_time,
                 transcript_lines |->
                     LinesWithin(lines, chapter_start_time, chapter_end_time)] >>
             \o AssignFrom(lines, dicts, k + 1)

_assign_transcript_lines_to_chapters(video_metadata, lines, dicts) ==
    IF dicts = <<>>
    THEN << [title |-> video_metadata.video_title,
             start_time |-> FloatOfInt(0),
             end_time |-> inf,
             transcript_lines |-> lines] >>
    ELSE AssignFrom(lines, dicts, 1)

\* ------------------------------------------------------------- exceptions
\* EXCEPTION_MESSAGES: the messages of the URL errors
EXCEPTION_MESSAGES ==
    [url_is_invalid_error |-> "Invalid URL format",
     url_video_unavailable_error |-> "YouTube video unavailable",
     url_transcript_not_found_error |-> "This video doesn't have a transcript available",
     url_rate_limit_error |-> "YouTube is temporarily limiting requests - try again later",
     url_not_youtube_error |-> "URL is not a YouTube video",
     url_incomplete_error |-> "YouTube URL is incomplete",
     url_bot_protection_error |-> "YouTube requires verification - try switching networks",
     url_unmapped_error |-> "YouTube processing failed - unmapped error"]

\* the default of the message argument of each class's __init__
DefaultMessage ==
    [URLIsInvalidError |-> EXCEPTION_MESSAGES.url_is_invalid_error,
     URLVideoUnavailableError |-> EXCEPTION_MESSAGES.url_video_unavailable_error,
     URLTranscriptNotFoundError |-> EXCEPTION_MESSAGES.url_transcript_not_found_error,
     URLRateLimitError |-> EXCEPTION_MESSAGES.url_rate_limit_error,
     URLNotYouTubeError |-> EXCEPTION_MESSAGES.url_not_youtube_error,
     URLIncompleteError |-> EXCEPTION_MESSAGES.url_incomplete_error,
     URLBotProtectionError |-> EXCEPTION_MESSAGES.url_bot_protection_error,
     URLUnmappedError |-> EXCEPTION_MESSAGES.url_unmapped_error]

\* error_patterns of map_yt_dlp_exception: (pattern, exception_class)
error_patterns ==
    <<
      \* "429"
      [pattern |->
          <<"4", "2", "9">>,
       exception_class |-> "URLRateLimitError"],
      \* "sign in to confirm you're not a bot"
      [pattern |->
          <<"s", "i", "g", "n", " ", "i", "n", " ", "t", "o", " ", "c",
            "o", "n", "f", "i", "r", "m", " ", "y", "o", "u", "'", "r",
            "e", " ", "n", "o", "t", " ", "a", " ", "b", "o", "t">>,
       exception_class |-> "URLBotProtectionError"],
      \* "unsupported url"
      [pattern |->
          <<"u", "n", "s", "u", "p", "p", "o", "r", "t", "e", "d", " ",
            "u", "r", "l">>,
       exception_class |-> "URLNotYouTubeError"],
      \* "incomplete youtube id"
      [pattern |->
          <<"i", "n", "c", "o", "m", "p", "l", "e", "t", "e", " ", "y",
            "o", "u", "t", "u", "b", "e", " ", "i", "d">>,
       exception_class |-> "URLIncompleteError"],
      \* "is not a valid url"
      [pattern |->
          <<"i", "s", " ", "n", "o", "t", " ", "a", " ", "v", "a", "l",
            "i", "d", " ", "u", "r", "l">>,
       exception_class |-> "URLIsInvalidError"],
      \* "[youtube] invalid-url:"
      [pattern |->
          <<"[", "y", "o", "u", "t", "u", "b", "e", "]", " ", "i", "n",
            "v", "a", "l", "i", "d", "-", "u", "r", "l", ":">>,
       exception_class |-> "URLIsInvalidError"],
      \* "video unavailable"
      [pattern |->
          <<"v", "i", "d", "e", "o", " ", "u", "n", "a", "v", "a", "i",
            "l", "a", "b", "l", "e">>,
       exception_class |-> "URLVideoUnavailableError"] >>

\* mutant of FirstPatternFrom: the last pattern of the table that occurs
RECURSIVE LastPatternFrom(_, _)
LastPatternFrom(error_msg, k) ==
    IF k > Len(error_patterns) THEN 0
    ELSE LET later == LastPatternFrom(error_msg, k + 1)
         IN  IF later # 0 THEN later
             ELSE IF Contains(error_msg, error_patterns[k].pattern) THEN k
             ELSE 0

\* for pattern, exception_class in error_patterns: if pattern in error_msg;
\* the index of the pattern the loop returns at, 0 when it runs to its end
RECURSIVE FirstPatternFrom(_, _)
FirstPatternFrom(error_msg, k) ==
    IF k > Len(error_patterns) THEN 0
    ELSE IF Contains(error_msg, error_patterns[k].pattern) THEN k
    ELSE FirstPatternFrom(error_msg, k + 1)

\* str.removeprefix(prefix)
RemovePrefix(str, prefix) ==
    IF Len(str) >= Len(prefix) /\ SubSeq(str, 1, Len(prefix)) = prefix
    THEN SubSeq(str, Len(prefix) + 1, Len(str))
    ELSE str

\* map_yt_dlp_exception(error), error_str being str(error)
map_yt_dlp_exception(error_str) ==
    LET error_msg == Lower(error_str)
        k == FirstPatternFrom(error_msg, 1)
    IN  IF k # 0
        THEN [kind |-> error_patterns[k].exception_class,
              msg |-> DefaultMessage[error_patterns[k].exception_class],
              arg |-> <<>>]
        ELSE LET original_msg == error_str
                 clean_msg == RemovePrefix(original_msg,
                                           <<"E", "R", "R", "O", "R", ":", " ">>)
             IN  [kind |-> "URLUnmappedError", msg |-> "", arg |-> clean_msg]

\* ------------------------------------------------------------------ state
VARIABLES
    pc,                    \* position of the call in progress
    raw_transcript,        \* argument of parse_transcript_document
    sanitized_transcript,
    transcript_lines,
    timestamp_indices,
    chapters_metadata,
    i,                     \* loop index of the chapter-building loop
    new_chapters,
    document,              \* the TranscriptDocument returned: its chapters
    error,                 \* the exception raised, NoError when none
    seconds,               \* argument of seconds_to_timestamp
    formatted,             \* its result
    reparsed,              \* timestamp_to_seconds of that result
    timestamp_str,         \* argument of timestamp_to_seconds
    parsed,                \* its result
    seconds_b,             \* argument of a second call of seconds_to_timestamp
    formatted_b,           \* its result
    resanitized,           \* _sanitize_transcript_spacing of the sanitized text
    xml,                   \* result of transcript_to_xml
    legacy,                \* result of parse_transcript_file
    user_input,            \* args.transcript
    file_state,            \* what reading the file at that path meets
    output_writable,       \* whether write_text on the output path succeeds
    output_filename,       \* name of the output file, once known
    cwd_files,             \* names of the files in the working directory
    stdout,                \* the messages printed, in order
    saved,                 \* number of executions of _save_xml_output
    exit_status,           \* exit status of the process, -1 while it runs
    url_metadata,              \* arguments of _assign_transcript_lines_to_chapters:
    url_transcript_lines,  \*   its transcript_lines
    chapter_dicts,
    url_chapters,              \* its walk_result
    walk_lines,             \* argument of _convert_string_lines_to_transcript_objects
    walk_i,                \* its loop index i, as Python counts (from 0)
    walk_result,                \* its list of TranscriptLine objects
    walk_reads,                 \* the indices of walk_lines its last iteration read
    yt_dlp_error,          \* str(error) of the argument of map_yt_dlp_exception
    mapped                 \* the exception it returns

vars == <<pc, raw_transcript, sanitized_transcript, transcript_lines,
          timestamp_indices, chapters_metadata, i, new_chapters, document,
          error, seconds, formatted, reparsed, timestamp_str, parsed,
          seconds_b, formatted_b, resanitized, xml, legacy, user_input,
          file_state, output_writable, output_filename, cwd_files, stdout,
          saved, exit_status, url_metadata, url_transcript_lines, chapter_dicts,
          url_chapters, walk_lines, walk_i, walk_result, walk_reads, yt_dlp_error, mapped>>

parserVars == <<raw_transcript, sanitized_transcript, transcript_lines,
                timestamp_indices, chapters_metadata, i, new_chapters, document>>

codecVars == <<seconds, formatted, reparsed>>

grammarVars == <<timestamp_str, parsed>>

pairVars == <<seconds_b, formatted_b>>

cliVars == <<user_input, file_state, output_writable, output_filename, cwd_files,
             stdout, saved, exit_status>>

urlVars == <<url_metadata, url_transcript_lines, chapter_dicts, url_chapters>>

walkVars == <<walk_lines, walk_i, walk_result, walk_reads>>

mapVars == <<yt_dlp_error, mapped>>

\* what the parser's and the codec's steps leave alone besides each other's
restVars == <<grammarVars, pairVars, resanitized, xml, legacy, cliVars,
             urlVars, walkVars, mapVars>>

\* ----------------------------------------------------------------- inputs
Letters == <<"a", "b", "c", "d", "e", "f", "g", "h", "j", "k", "m", "n">>

\* the k-th non-blank raw line: a text unique to its position, the timestamp
\* 0:0k, or the timestamp 0:04 with a leading space
LineChoice(k, c) ==
    CASE c = 1 -> <<Letters[k]>>
      [] c = 2 -> <<"0", ":">> \o Pad2(k)
      [] OTHER -> <<" ", "0", ":", "0", "4">>

\* the lines f[1], ..., f[n], with a whitespace-only line put before line b
\* (after the last line when b = n + 1; nowhere when b = 0)
RawLines(n, f, b) ==
    [k \in 1..(IF b = 0 THEN n ELSE n + 1) |->
        IF b = 0 \/ k < b THEN LineChoice(k, f[k])
        ELSE IF k = b THEN <<" ">>
        ELSE LineChoice(k - 1, f[k - 1])]

RawTranscript(n, f, b) == Join(<<"\n">>, RawLines(n, f, b))

\* the choices open with a title, a timestamp and a text
ValidOpening(n, f) == n >= 3 /\ f[1] = 1 /\ f[2] # 1 /\ f[3] = 1

NoResult == [err |-> NoError, value |-> <<>>]

NoFloatResult == [err |-> NoError, value |-> FloatOfInt(0)]

\* a call that has not been made
NotRun == [err |-> NoError, value |-> <<>>, run |-> FALSE, calls |-> <<>>]

\* the values of the variables of the calls that a run does not make
ParserIdle ==
    /\ sanitized_transcript = <<>>
    /\ transcript_lines = <<>>
    /\ timestamp_indices = <<>>
    /\ chapters_metadata = <<>>
    /\ i = 1
    /\ new_chapters = <<>>
    /\ document = <<>>
    /\ error = NoError

CodecIdle ==
    /\ formatted = NoResult
    /\ reparsed = NoFloatResult

GrammarIdle ==
    /\ timestamp_str = <<>>
    /\ parsed = NoFloatResult

PairIdle ==
    /\ seconds_b = FloatOfInt(0)
    /\ formatted_b = NoResult

CallsIdle ==
    /\ resanitized = <<>>
    /\ xml = NotRun
    /\ legacy = NotRun

UrlIdle ==
    /\ url_metadata = VideoMetadata
    /\ url_transcript_lines = <<>>
    /\ chapter_dicts = <<>>
    /\ url_chapters = <<>>

WalkIdle ==
    /\ walk_lines = <<>>
    /\ walk_i = 0
    /\ walk_result = <<>>
    /\ walk_reads = {}

MapIdle ==
    /\ yt_dlp_error = <<>>
    /\ mapped = NoError

CliIdle ==
    /\ user_input = <<>>
    /\ file_state = "readable"
    /\ output_writable = TRUE
    /\ output_filename = <<>>
    /\ cwd_files = {}
    /\ stdout = <<>>
    /\ saved = 0
    /\ exit_status = -1

Init ==
    /\ pc = "start"
    \* every input of up to MaxShort lines, and of the longer ones those that
    \* pass validation (validation reads the first three non-blank lines only)
    /\ \E n \in 0..MaxLines : \E f \in [1..n -> 1..3] :
         \E b \in 0..MaxBlankAt :
           /\ n <= MaxShort \/ ValidOpening(n, f)
           /\ b <= n + 1
           /\ raw_transcript = RawTranscript(n, f, b)
    /\ ParserIdle
    /\ seconds = FloatOfInt(0)
    /\ CodecIdle
    /\ GrammarIdle
    /\ PairIdle
    /\ CallsIdle
    /\ UrlIdle
    /\ WalkIdle
    /\ MapIdle
    /\ CliIdle

\* --------------------------------------------- parse_transcript_document
Sanitize ==
    /\ pc = "start"
    /\ sanitized_transcript' = _sanitize_transcript_spacing(raw_transcript)
    /\ pc' = "sanitized"
    /\ UNCHANGED <<raw_transcript, transcript_lines, timestamp_indices,
                   chapters_metadata, i, new_chapters, document, error>>
    /\ UNCHANGED <<codecVars, restVars>>

Validate ==
    /\ pc = "sanitized"
    /\ error' = validate_transcript_format(sanitized_transcript)
    /\ pc' = IF error' = NoError THEN "validated" ELSE "raised"
    /\ UNCHANGED parserVars
    /\ UNCHANGED <<codecVars, restVars>>

FindTimestamps ==
    /\ pc = "validated"
    /\ transcript_lines' = SplitLines(sanitized_transcript)
    /\ timestamp_indices' = find_timestamps(transcript_lines')
    /\ pc' = "indexed"
    /\ UNCHANGED <<raw_transcript, sanitized_transcript, chapters_metadata, i,
                   new_chapters, document, error>>
    /\ UNCHANGED <<codecVars, restVars>>

FindChapters ==
    /\ pc = "indexed"
    /\ IF timestamp_indices = <<>> /\ ~IsTimestampLine(transcript_lines[1])
       THEN /\ error' = IndexError
            /\ pc' = "raised"
            /\ UNCHANGED chapters_metadata
       ELSE LET found == FoundChapters(transcript_lines, timestamp_indices)
            IN  IF FirstErr(found) # NoError
                THEN /\ error' = FirstErr(found)
                     /\ pc' = "raised"
                     /\ UNCHANGED chapters_metadata
                ELSE /\ chapters_metadata' = found
                     /\ pc' = "building"
                     /\ UNCHANGED error
    /\ i' = 1
    /\ UNCHANGED <<raw_transcript, sanitized_transcript, transcript_lines,
                   timestamp_indices, new_chapters, document>>
    /\ UNCHANGED <<codecVars, restVars>>

\* one iteration of the loop over chapters_metadata
BuildChapter ==
    /\ pc = "building"
    /\ i <= Len(chapters_metadata)
    /\ LET chapter_data == chapters_metadata[i]
           last == ~(i < Len(chapters_metadata))
           transcript_end == WindowEnd(chapters_metadata, transcript_lines, i)
           end_time == EndTime(chapters_metadata, i)
           start_idx == WindowStart(chapters_metadata, i)
           raw_chapter_lines == SubSeq(transcript_lines, start_idx, transcript_end - 1)
           objs == _convert_string_lines_to_transcript_objects(raw_chapter_lines)
       IN  IF ~last /\ FloatLessEq(end_time, chapter_data.start_time)
           THEN /\ error' = FormatError("Subsequent chapter timestamps must be strictly increasing")
                /\ pc' = "raised"
                /\ UNCHANGED <<i, new_chapters>>
           ELSE IF FirstErr(objs) # NoError
           THEN /\ error' = FirstErr(objs)
                /\ pc' = "raised"
                /\ UNCHANGED <<i, new_chapters>>
           ELSE /\ new_chapters' = Append(new_chapters,
                                          [title |-> chapter_data.title,
                                           start_time |-> chapter_data.start_time,
                                           end_time |-> end_time,
                                           transcript_lines |-> TranscriptLines(objs)])
                /\ i' = i + 1
                /\ UNCHANGED <<pc, error>>
    /\ UNCHANGED <<raw_transcript, sanitized_transcript, transcript_lines,
                   timestamp_indices, chapters_metadata, document>>
    /\ UNCHANGED <<codecVars, restVars>>

Return ==
    /\ pc = "building"
    /\ ~(i <= Len(chapters_metadata))
    /\ document' = new_chapters
    /\ pc' = "returned"
    /\ UNCHANGED <<raw_transcript, sanitized_transcript, transcript_lines,
                   timestamp_indices, chapters_metadata, i, new_chapters, error>>
    /\ UNCHANGED <<codecVars, restVars>>

\* ------------------------------ seconds_to_timestamp / timestamp_to_seconds
\* the float (h hours, m minutes, sec seconds, frac/SubSecond seconds)
SecondsValue(h, m, sec, frac) ==
    [kind |-> "fin",
     num |-> (h * SECONDS_PER_HOUR + m * SECONDS_PER_MINUTE + sec) * SubSecond + frac]

InitCodec ==
    /\ pc = "codec_start"
    /\ \E h \in 0..MaxHours : \E m \in {0, 9, 10, 59} : \E sec \in {0, 9, 10, 59} :
         \E frac \in 0..(SubSecond - 1) :
           seconds = SecondsValue(h, m, sec, frac)
    /\ raw_transcript = <<>>
    /\ ParserIdle
    /\ CodecIdle
    /\ GrammarIdle
    /\ PairIdle
    /\ CallsIdle
    /\ UrlIdle
    /\ WalkIdle
    /\ MapIdle
    /\ CliIdle

Format ==
    /\ pc = "codec_start"
    /\ formatted' = seconds_to_timestamp(seconds)
    /\ error' = formatted'.err
    /\ pc' = IF formatted'.err = NoError THEN "formatted" ELSE "codec_raised"
    /\ UNCHANGED <<seconds, reparsed>>
    /\ UNCHANGED <<parserVars, restVars>>

Reparse ==
    /\ pc = "formatted"
    /\ reparsed' = timestamp_to_seconds(formatted.value)
    /\ error' = reparsed'.err
    /\ pc' = IF reparsed'.err = NoError THEN "reparsed" ELSE "codec_raised"
    /\ UNCHANGED <<seconds, formatted>>
    /\ UNCHANGED <<parserVars, restVars>>

NextCodec ==
    \/ Format
    \/ Reparse

SpecCodec == InitCodec /\ [][NextCodec]_vars

\* ------------------------------------------ seconds_to_timestamp on any float
InitFormatAny ==
    /\ pc = "codec_start"
    /\ \/ seconds \in {inf, neg_inf, nan}
       \/ \E n \in (0 - MaxUnits)..MaxUnits : seconds = [kind |-> "fin", num |-> n]
    /\ raw_transcript = <<>>
    /\ ParserIdle
    /\ CodecIdle
    /\ GrammarIdle
    /\ PairIdle
    /\ CallsIdle
    /\ UrlIdle
    /\ WalkIdle
    /\ MapIdle
    /\ CliIdle

SpecFormatAny == InitFormatAny /\ [][NextCodec]_vars

\* ------------------------------------------- two calls of seconds_to_timestamp
PairHours == {0, 1, 9, 10}

PairMinutes == {0, 1, 2, 9, 10, 59}

PairSeconds == {0, 1, 9, 10, 59}

PairValues ==
    {SecondsValue(h, m, sec, frac) :
        h \in PairHours, m \in PairMinutes, sec \in PairSeconds,
        frac \in 0..(SubSecond - 1)}

InitPair ==
    /\ pc = "pair_start"
    /\ seconds \in PairValues
    /\ seconds_b \in PairValues
    /\ formatted_b = NoResult
    /\ raw_transcript = <<>>
    /\ ParserIdle
    /\ CodecIdle
    /\ GrammarIdle
    /\ CallsIdle
    /\ UrlIdle
    /\ WalkIdle
    /\ MapIdle
    /\ CliIdle

FormatFirst ==
    /\ pc = "pair_start"
    /\ formatted' = seconds_to_timestamp(seconds)
    /\ error' = formatted'.err
    /\ pc' = IF formatted'.err = NoError THEN "pair_first" ELSE "codec_raised"
    /\ UNCHANGED <<raw_transcript, sanitized_transcript, transcript_lines,
                   timestamp_indices, chapters_metadata, i, new_chapters, document>>
    /\ UNCHANGED <<seconds, reparsed, grammarVars, pairVars, resanitized, xml,
                   legacy, cliVars,
                   urlVars, walkVars, mapVars>>

FormatSecond ==
    /\ pc = "pair_first"
    /\ formatted_b' = seconds_to_timestamp(seconds_b)
    /\ error' = formatted_b'.err
    /\ pc' = IF formatted_b'.err = NoError THEN "pair_done" ELSE "codec_raised"
    /\ UNCHANGED <<raw_transcript, sanitized_transcript, transcript_lines,
                   timestamp_indices, chapters_metadata, i, new_chapters, document>>
    /\ UNCHANGED <<codecVars, grammarVars, seconds_b, resanitized, xml, legacy,
                   cliVars,
                   urlVars, walkVars, mapVars>>

NextPair ==
    \/ FormatFirst
    \/ FormatSecond

SpecPair == InitPair /\ [][NextPair]_vars

\* ------------------------------------------------------------- cli.main
\* the arguments: two relative paths, a path into a directory, a URL
CliInputs ==
    { <<"t", "e", "s", "t", ".", "t", "x", "t">>,
      <<"n", "o", "t", "e", "s">>,
      <<"d", "/", "a", ".", "b", ".", "t", "x", "t">>,
      <<"y", "o", "u", "t", "u", ".", "b", "e", "/", "x">> }

\* what parse_youtube_url may return: the titles of the video
UrlTitles == { <<"M", "y", " ", "t", "a", "l", "k", "!">>, <<"?">> }

UrlDocument(title) ==
    TranscriptDocument(
        [VideoMetadata EXCEPT !.video_title = title],
        << [title |-> <<"a">>, start_time |-> FloatOfInt(0), end_time |-> inf,
            transcript_lines |-> << [timestamp |-> FloatOfInt(0), text |-> <<"b">>] >>] >>)

InitCli ==
    /\ pc = "cli_start"
    /\ user_input \in CliInputs
    /\ output_writable \in BOOLEAN
    /\ \/ /\ file_state \in {"missing", "unreadable", "not_utf8"}
          /\ raw_transcript = <<>>
       \/ /\ file_state = "readable"
          /\ ~is_youtube_url(user_input)
          /\ \E n \in 0..MaxCliLines : \E f \in [1..n -> 1..3] :
                raw_transcript = RawTranscript(n, f, 0)
    /\ output_filename = <<>>
    /\ cwd_files = {}
    /\ stdout = <<>>
    /\ saved = 0
    /\ exit_status = -1
    /\ ParserIdle
    /\ seconds = FloatOfInt(0)
    /\ CodecIdle
    /\ GrammarIdle
    /\ PairIdle
    /\ CallsIdle
    /\ UrlIdle
    /\ WalkIdle
    /\ MapIdle

\* what the steps of main leave alone
cliRest == <<sanitized_transcript, transcript_lines, timestamp_indices,
             chapters_metadata, i, new_chapters, document, codecVars,
             grammarVars, pairVars, resanitized, raw_transcript, user_input,
             file_state, output_writable, urlVars, walkVars, mapVars>>

\* mutant of Exit1: the message is printed and the process goes on to the
\* save instead of exiting
Exit1FallThrough(message) ==
    /\ stdout' = Append(stdout, message)
    /\ exit_status' = IF pc = "cli_processed" THEN 1 ELSE exit_status
    /\ pc' = IF pc = "cli_processed" THEN "cli_exited" ELSE "cli_processed"


\* sys.exit(1) after printing message
Exit1(message) ==
    /\ stdout' = Append(stdout, message)
    /\ exit_status' = 1
    /\ pc' = "cli_exited"

\* an exception no handler catches ends the process with status 1
Crash(err) ==
    /\ error' = err
    /\ exit_status' = 1
    /\ pc' = "cli_crashed"

\* setup_logging, parse_arguments and the routing on is_youtube_url
Start ==
    /\ pc = "cli_start"
    /\ cwd_files' = cwd_files \cup {LOG_FILE}
    /\ pc' = IF is_youtube_url(user_input) THEN "cli_url" ELSE "cli_file"
    /\ UNCHANGED <<cliRest, error, xml, legacy, output_filename, stdout, saved,
                   exit_status>>

\* _process_url_input: parse_youtube_url fetches from the network and
\* raises a URL* error or returns a document
ProcessUrl ==
    /\ pc = "cli_url"
    /\ \/ \E kind \in URLErrors :
             /\ error' = [kind |-> kind, msg |-> "", arg |-> <<>>]
             /\ stdout' = stdout \o <<"Processing", "Error processing URL">>
             /\ exit_status' = 1
             /\ pc' = "cli_exited"
             /\ UNCHANGED <<xml, output_filename>>
       \/ \E title \in UrlTitles :
             /\ xml' = transcript_to_xml(UrlDocument(title))
             /\ output_filename' = _sanitize_video_title_for_filename(title)
             /\ stdout' = Append(stdout, "Processing")
             /\ pc' = "cli_processed"
             /\ UNCHANGED <<error, exit_status>>
    /\ UNCHANGED <<cliRest, legacy, cwd_files, saved>>

\* _process_file_input: transcript_file_path.read_text(encoding="utf-8")
ReadFile ==
    /\ pc = "cli_file"
    /\ CASE file_state = "missing" -> Exit1("We couldn't find your file")
         [] file_state = "unreadable" -> Exit1("We don't have permission to access")
         [] file_state = "not_utf8" -> Exit1("File is not UTF-8 encoded")
         [] OTHER -> /\ pc' = "cli_read"
                     /\ UNCHANGED <<stdout, exit_status>>
    /\ UNCHANGED <<cliRest, error, xml, legacy, output_filename, cwd_files, saved>>

\* _process_file_input: document = parse_transcript_file(raw_transcript_text)
ParseInput ==
    /\ pc = "cli_read"
    /\ legacy' = parse_transcript_file(raw_transcript)
    /\ IF legacy'.err.kind = "FileEmptyError"
       THEN Exit1("Your file is empty") /\ error' = legacy'.err
       ELSE IF legacy'.err.kind = "FileInvalidFormatError"
       THEN Exit1("Wrong format") /\ error' = legacy'.err
       ELSE IF legacy'.err # NoError
       THEN Crash(legacy'.err) /\ UNCHANGED stdout
       ELSE /\ pc' = "cli_parsed"
            /\ UNCHANGED <<error, stdout, exit_status>>
    /\ UNCHANGED <<cliRest, xml, output_filename, cwd_files, saved>>

\* _process_file_input: xml_content = transcript_to_xml(document) and
\* output_filename = f"{transcript_file_path.stem}.xml"; document is the
\* list of chapters that parse_transcript_file returned
BuildXml ==
    /\ pc = "cli_parsed"
    /\ xml' = transcript_to_xml(ListOf(legacy.value))
    /\ IF xml'.err # NoError
       THEN /\ Crash(xml'.err)
            /\ UNCHANGED output_filename
       ELSE /\ output_filename' = PathStem(user_input) \o DotXml
            /\ pc' = "cli_processed"
            /\ UNCHANGED <<error, exit_status>>
    /\ UNCHANGED <<cliRest, legacy, cwd_files, stdout, saved>>

\* _save_xml_output, then main returns
SaveXml ==
    /\ pc = "cli_processed"
    /\ saved' = saved + 1
    /\ IF output_writable
       THEN /\ cwd_files' = cwd_files \cup {output_filename}
            /\ stdout' = Append(stdout, "Created")
            /\ exit_status' = 0
            /\ pc' = "cli_done"
       ELSE /\ Exit1("Cannot write to")
            /\ UNCHANGED cwd_files
    /\ UNCHANGED <<cliRest, error, xml, legacy, output_filename>>

NextCli ==
    \/ Start
    \/ ProcessUrl
    \/ ReadFile
    \/ ParseInput
    \/ BuildXml
    \/ SaveXml

SpecCli == InitCli /\ [][NextCli]_vars

\* ------------------------------------ _assign_transcript_lines_to_chapters
\* the provider's chapters: the k-th has a title of its own and a start time
\* of 0..MaxUrlTime seconds, in any order
UrlChapterDicts(n, t) ==
    [k \in 1..n |-> [title |-> <<Letters[k]>>, start_time |-> FloatOfInt(t[k])]]

\* the transcript's lines: the k-th has a text of its own and a timestamp of
\* 0..MaxUrlTime seconds, in any order
UrlTranscriptLines(n, t) ==
    [k \in 1..n |-> [timestamp |-> FloatOfInt(t[k]), text |-> <<Letters[MaxUrlItems + 1 + k]>>]]

InitAssign ==
    /\ pc = "assign_start"
    /\ url_metadata = [VideoMetadata EXCEPT !.video_title = <<"V", "i", "d">>]
    /\ \E n \in 0..MaxUrlItems : \E t \in [1..n -> 0..MaxUrlTime] :
          chapter_dicts = UrlChapterDicts(n, t)
    /\ \E n \in 0..MaxUrlItems : \E t \in [1..n -> 0..MaxUrlTime] :
          url_transcript_lines = UrlTranscriptLines(n, t)
    /\ url_chapters = <<>>
    /\ raw_transcript = <<>>
    /\ ParserIdle
    /\ seconds = FloatOfInt(0)
    /\ CodecIdle
    /\ GrammarIdle
    /\ PairIdle
    /\ CallsIdle
    /\ WalkIdle
    /\ MapIdle
    /\ CliIdle

\* chapters = _assign_transcript_lines_to_chapters(metadata, transcript_lines,
\* youtube_chapter_dicts); the function has no raise statement
AssignChapters ==
    /\ pc = "assign_start"
    /\ url_chapters' = _assign_transcript_lines_to_chapters(
                           url_metadata, url_transcript_lines, chapter_dicts)
    /\ pc' = "assigned"
    /\ UNCHANGED <<parserVars, error, codecVars, grammarVars, pairVars, resanitized,
                   xml, legacy, cliVars, url_metadata, url_transcript_lines,
                   chapter_dicts, walkVars, mapVars>>

NextAssign ==
    \/ AssignChapters

SpecAssign == InitAssign /\ [][NextAssign]_vars

\* ------------- _convert_string_lines_to_transcript_objects, step by step
\* raw_lines[k] as Python indexes it, and whether k is an index of raw_lines
LineAt(raw_lines, k) == raw_lines[k + 1]

InRange(raw_lines, k) == 0 <= k /\ k < Len(raw_lines)

\* mutant of NextLineExists: the test is i + 1 <= len(raw_lines)
NextLineExistsOrAtEnd(raw_lines, k) == k + 1 <= Len(raw_lines)

\* if i + 1 < len(raw_lines)
NextLineExists(raw_lines, k) == k + 1 < Len(raw_lines)

\* any window of up to MaxWalkLines lines: texts and timestamps in any order
InitWalk ==
    /\ pc = "walk"
    /\ \E n \in 0..MaxWalkLines : \E f \in [1..n -> 1..3] :
          walk_lines = [k \in 1..n |-> LineChoice(k, f[k])]
    /\ walk_i = 0
    /\ walk_result = <<>>
    /\ walk_reads = {}
    /\ raw_transcript = <<>>
    /\ ParserIdle
    /\ seconds = FloatOfInt(0)
    /\ CodecIdle
    /\ GrammarIdle
    /\ PairIdle
    /\ CallsIdle
    /\ UrlIdle
    /\ MapIdle
    /\ CliIdle

\* what the steps of the walk leave alone
walkRest == <<parserVars, codecVars, grammarVars, pairVars, resanitized, xml,
              legacy, cliVars, urlVars, mapVars, walk_lines>>

\* one iteration of the while loop; reading raw_lines at an index that is not
\* in range raises IndexError
WalkStep ==
    /\ pc = "walk"
    /\ walk_i < Len(walk_lines)
    /\ LET is_timestamp == IsTimestampLine(LineAt(walk_lines, walk_i))
           reads_next == is_timestamp /\ NextLineExists(walk_lines, walk_i)
           read_now == {walk_i} \cup (IF reads_next THEN {walk_i + 1} ELSE {})
       IN  /\ walk_reads' = walk_reads \cup read_now
           /\ IF \E k \in read_now : ~InRange(walk_lines, k)
              THEN /\ error' = IndexError
                   /\ pc' = "walk_raised"
                   /\ UNCHANGED <<walk_i, walk_result>>
              ELSE IF is_timestamp
              THEN LET paired == reads_next
                                 /\ ~IsTimestampLine(LineAt(walk_lines, walk_i + 1))
                       text == IF paired THEN LineAt(walk_lines, walk_i + 1) ELSE <<>>
                       conv == timestamp_to_seconds(LineAt(walk_lines, walk_i))
                   IN  /\ walk_i' = IF paired THEN walk_i + 2 ELSE walk_i + 1
                       /\ IF conv.err # NoError
                          THEN /\ error' = conv.err
                               /\ pc' = "walk_raised"
                               /\ UNCHANGED walk_result
                          ELSE /\ walk_result' =
                                     Append(walk_result,
                                            [timestamp |-> conv.value, text |-> text])
                               /\ UNCHANGED <<pc, error>>
              ELSE /\ walk_i' = walk_i + 1
                   /\ UNCHANGED <<pc, error, walk_result>>
    /\ UNCHANGED walkRest

\* the loop's test fails: return result
WalkReturn ==
    /\ pc = "walk"
    /\ ~(walk_i < Len(walk_lines))
    /\ pc' = "walk_done"
    /\ UNCHANGED <<error, walk_i, walk_result, walk_reads, walkRest>>

NextWalk ==
    \/ WalkStep
    \/ WalkReturn

\* the function's body runs on until it returns or raises
SpecWalk == InitWalk /\ [][NextWalk]_vars /\ WF_vars(NextWalk)

\* --------------------------------------------------- map_yt_dlp_exception
\* what yt-dlp's messages are made of: its prefix, the texts the patterns
\* look for, the tag of the placeholder id, the tags of two video ids (one
\* holds the digits 429), and another text
MapFragments ==
    <<
      \* "ERROR: "
      <<"E", "R", "R", "O", "R", ":", " ">>,
      \* "HTTP Error 429"
      <<"H", "T", "T", "P", " ", "E", "r", "r", "o", "r", " ", "4", "2", "9">>,
      \* "Sign in to confirm you're not a bot"
      <<"S", "i", "g", "n", " ", "i", "n", " ", "t", "o", " ", "c", "o",
        "n", "f", "i", "r", "m", " ", "y", "o", "u", "'", "r", "e", " ",
        "n", "o", "t", " ", "a", " ", "b", "o", "t">>,
      \* "Unsupported URL"
      <<"U", "n", "s", "u", "p", "p", "o", "r", "t", "e", "d", " ", "U",
        "R", "L">>,
      \* "Incomplete YouTube ID"
      <<"I", "n", "c", "o", "m", "p", "l", "e", "t", "e", " ", "Y", "o",
        "u", "T", "u", "b", "e", " ", "I", "D">>,
      \* "is not a valid URL"
      <<"i", "s", " ", "n", "o", "t", " ", "a", " ", "v", "a", "l", "i",
        "d", " ", "U", "R", "L">>,
      \* "[youtube] invalid-url: "
      <<"[", "y", "o", "u", "t", "u", "b", "e", "]", " ", "i", "n", "v",
        "a", "l", "i", "d", "-", "u", "r", "l", ":", " ">>,
      \* "Video unavailable"
      <<"V", "i", "d", "e", "o", " ", "u", "n", "a", "v", "a", "i", "l",
        "a", "b", "l", "e">>,
      \* "[youtube] dQw429WgXcQ: "
      <<"[", "y", "o", "u", "t", "u", "b", "e", "]", " ", "d", "Q", "w",
        "4", "2", "9", "W", "g", "X", "c", "Q", ":", " ">>,
      \* "[youtube] ai_HGCf2w_w: "
      <<"[", "y", "o", "u", "t", "u", "b", "e", "]", " ", "a", "i", "_",
        "H", "G", "C", "f", "2", "w", "_", "w", ":", " ">>,
      \* "Private video"
      <<"P", "r", "i", "v", "a", "t", "e", " ", "v", "i", "d", "e", "o">> >>

RECURSIVE ConcatAll(_)
ConcatAll(parts) ==
    IF parts = <<>> THEN <<>> ELSE Head(parts) \o ConcatAll(Tail(parts))

\* the message made of the fragments f[1], ..., f[n]
MapMessage(n, f) == ConcatAll([k \in 1..n |-> MapFragments[f[k]]])

InitMap ==
    /\ pc = "map_start"
    /\ \E n \in 0..MaxMsgParts : \E f \in [1..n -> 1..Len(MapFragments)] :
          yt_dlp_error = MapMessage(n, f)
    /\ mapped = NoError
    /\ raw_transcript = <<>>
    /\ ParserIdle
    /\ seconds = FloatOfInt(0)
    /\ CodecIdle
    /\ GrammarIdle
    /\ PairIdle
    /\ CallsIdle
    /\ UrlIdle
    /\ WalkIdle
    /\ CliIdle

\* raise map_yt_dlp_exception(e) from e
MapException ==
    /\ pc = "map_start"
    /\ mapped' = map_yt_dlp_exception(yt_dlp_error)
    /\ error' = mapped'
    /\ pc' = "mapped"
    /\ UNCHANGED <<parserVars, codecVars, grammarVars, pairVars, resanitized, xml,
                   legacy, cliVars, urlVars, walkVars, yt_dlp_error>>

NextMap ==
    \/ MapException

SpecMap == InitMap /\ [][NextMap]_vars

\* ------------------------------- _sanitize_transcript_spacing on any text
SanitizeChars == <<"a", " ", "\t", "\n", "\r">>

InitSanitize ==
    /\ pc = "start"
    /\ \E n \in 0..MaxRawLen : \E f \in [1..n -> 1..Len(SanitizeChars)] :
         raw_transcript = [k \in 1..n |-> SanitizeChars[f[k]]]
    /\ ParserIdle
    /\ seconds = FloatOfInt(0)
    /\ CodecIdle
    /\ GrammarIdle
    /\ PairIdle
    /\ CallsIdle
    /\ UrlIdle
    /\ WalkIdle
    /\ MapIdle
    /\ CliIdle

\* the function applied to its own result
SanitizeAgain ==
    /\ pc = "sanitized"
    /\ resanitized' = _sanitize_transcript_spacing(sanitized_transcript)
    /\ pc' = "resanitized"
    /\ UNCHANGED <<parserVars, error, codecVars, grammarVars, pairVars, xml, legacy,
                   cliVars,
                   urlVars, walkVars, mapVars>>

NextSanitize ==
    \/ Sanitize
    \/ SanitizeAgain

SpecSanitize == InitSanitize /\ [][NextSanitize]_vars

\* -------------------------------------- timestamp_to_seconds on any string
\* the colon-separated fields the argument is made of
GrammarFields ==
    << <<>>, <<"7">>, <<"0", "0">>, <<"5", "9">>, <<"6", "0">>,
       <<"0", "0", "5">>, <<"1", "2", "3">>, <<"1", "2", "3", "4">>,
       <<"a", "5">> >>

\* the whitespace before and after them
GrammarPads == << <<<<>>, <<>>>>, <<<<" ">>, <<" ">>>>, <<<<"\t">>, <<"\n">>>> >>

GrammarString(n, f, p) ==
    GrammarPads[p][1]
        \o Join(<<":">>, [k \in 1..n |-> GrammarFields[f[k]]])
        \o GrammarPads[p][2]

InitGrammar ==
    /\ pc = "grammar_start"
    /\ \E n \in 1..MaxFields : \E f \in [1..n -> 1..Len(GrammarFields)] :
         \E p \in 1..Len(GrammarPads) :
           timestamp_str = GrammarString(n, f, p)
    /\ parsed = NoFloatResult
    /\ raw_transcript = <<>>
    /\ ParserIdle
    /\ seconds = FloatOfInt(0)
    /\ CodecIdle
    /\ PairIdle
    /\ CallsIdle
    /\ UrlIdle
    /\ WalkIdle
    /\ MapIdle
    /\ CliIdle

ParseTimestamp ==
    /\ pc = "grammar_start"
    /\ parsed' = timestamp_to_seconds(timestamp_str)
    /\ error' = parsed'.err
    /\ pc' = IF parsed'.err = NoError THEN "parsed" ELSE "parse_raised"
    /\ UNCHANGED <<raw_transcript, sanitized_transcript, transcript_lines,
                   timestamp_indices, chapters_metadata, i, new_chapters, document>>
    /\ UNCHANGED <<codecVars, timestamp_str, pairVars, resanitized, xml, legacy,
                   cliVars,
                   urlVars, walkVars, mapVars>>

NextGrammar ==
    \/ ParseTimestamp

SpecGrammar == InitGrammar /\ [][NextGrammar]_vars

\* ------------------------- seconds_to_timestamp(timestamp_to_seconds(t))
\* the number of seconds parsed is the argument of seconds_to_timestamp
FormatParsed ==
    /\ pc = "parsed"
    /\ seconds' = parsed.value
    /\ formatted' = seconds_to_timestamp(seconds')
    /\ error' = formatted'.err
    /\ pc' = IF formatted'.err = NoError THEN "formatted" ELSE "codec_raised"
    /\ UNCHANGED <<parserVars, reparsed, restVars>>

NextCanon ==
    \/ ParseTimestamp
    \/ FormatParsed
    \/ Reparse

SpecCanon == InitGrammar /\ [][NextCanon]_vars

Next ==
    \/ Sanitize
    \/ Validate
    \/ FindTimestamps
    \/ FindChapters
    \/ BuildChapter
    \/ Return

Spec == Init /\ [][Next]_vars

\* -------------------- transcript_to_xml(parse_transcript_document(raw))
Emit ==
    /\ pc = "returned"
    /\ xml' = transcript_to_xml(TranscriptDocument(VideoMetadata, document))
    /\ error' = xml'.err
    /\ pc' = IF xml'.err = NoError THEN "emitted" ELSE "emit_raised"
    /\ UNCHANGED <<parserVars, codecVars, grammarVars, pairVars, resanitized,
                   legacy, cliVars,
                   urlVars, walkVars, mapVars>>

\* parse_transcript_file on the text that parse_transcript_document was given
ParseFile ==
    /\ pc \in {"returned", "raised"}
    /\ ~legacy.run
    /\ legacy' = parse_transcript_file(raw_transcript)
    /\ UNCHANGED <<pc, parserVars, error, codecVars, grammarVars, pairVars,
                   resanitized, xml, cliVars,
                   urlVars, walkVars, mapVars>>

NextLegacy ==
    \/ Next
    \/ ParseFile

SpecLegacy == Init /\ [][NextLegacy]_vars

NextEmit ==
    \/ Next
    \/ Emit

SpecEmit == Init /\ [][NextEmit]_vars

\* ----------------------------------------------------------------- claims
\* what the claims speak of, read off the state

\* the chapters' metadata is known
Detected == pc \in {"building", "returned"}

Returned == pc = "returned"

\* the timestamp lines of the normalized input, by the grammar alone
TsLines == {k \in 1..Len(transcript_lines) : IsTimestampLine(transcript_lines[k])}

\* pairs of adjacent timestamp lines
AdjacentTs ==
    LET T == TsLines
    IN  {p \in T \X T : p[1] < p[2] /\ ~\E c \in T : p[1] < c /\ c < p[2]}

Gap(p) == p[2] - p[1] - 1

\* the indices of the lines of chapter n's window
Window(n) ==
    {k \in 1..Len(transcript_lines) :
        /\ WindowStart(chapters_metadata, n) <= k
        /\ k < WindowEnd(chapters_metadata, transcript_lines, n)}

Parse(line) == timestamp_to_seconds(line).value

\* C1: a new chapter starts at the second of two adjacent timestamp lines
\* exactly when 2 lines lie between them; its title is the line before that
\* timestamp and its start time the timestamp's value; so there are 1 + (number
\* of such pairs) chapters, in the metadata and in the returned document.
C1_BoundaryRule ==
    Detected =>
        LET pairs == AdjacentTs
        IN  /\ \A p \in pairs :
                  (Gap(p) = 2) <=>
                      \E n \in 1..Len(chapters_metadata) :
                          chapters_metadata[n].transcript_start = p[2]
            /\ \A p \in pairs : \A n \in 1..Len(chapters_metadata) :
                  chapters_metadata[n].transcript_start = p[2] =>
                      /\ chapters_metadata[n].title = transcript_lines[p[2] - 1]
                      /\ chapters_metadata[n].start_time = Parse(transcript_lines[p[2]])
            /\ Len(chapters_metadata) = 1 + Cardinality({p \in pairs : Gap(p) = 2})
            /\ Returned => Len(document) = 1 + Cardinality({p \in pairs : Gap(p) = 2})

\* a returned document of two chapters with a 2-line gap and a 3-line gap
C1_Witness ==
    /\ Returned
    /\ \E p \in AdjacentTs : Gap(p) = 2
    /\ \E p \in AdjacentTs : Gap(p) = 3
    /\ Len(document) = 2

\* ---- C2 (SpecCodec)
\* hours the grammar admits: up to three digits
MAX_PATTERN_HOURS == 999

CodecFinished == pc \in {"reparsed", "codec_raised"}

\* floor(seconds), as a float
FloorOfSeconds == [kind |-> "fin", num |-> (seconds.num \div SubSecond) * SubSecond]

\* C2 as stated: for every non-negative finite s, parsing the formatted s
\* succeeds and gives floor(s).
C2_RoundTripAll ==
    CodecFinished => (pc = "reparsed" /\ reparsed.value = FloorOfSeconds)

\* C2 as amended: for every finite s with 0 <= s < 3600000 (less than 1000
\* hours), parsing the formatted s succeeds and gives floor(s).
C2_RoundTripBelow1000Hours ==
    (CodecFinished
        /\ seconds.num < (MAX_PATTERN_HOURS + 1) * SECONDS_PER_HOUR * SubSecond)
    => (pc = "reparsed" /\ reparsed.value = FloorOfSeconds)

\* a fractional number of seconds with a three-digit hour went round
C2_Witness ==
    /\ pc = "reparsed"
    /\ seconds.num % SubSecond # 0
    /\ seconds.num > 100 * SECONDS_PER_HOUR * SubSecond
    /\ Len(formatted.value) = 9

\* ---- C3
StartsIncrease(a, b) == FloatLess(a.start_time, b.start_time)

MonotonicMsg == "Subsequent chapter timestamps must be strictly increasing"

\* C3: the chapters of a returned document have strictly increasing start
\* times; the chapter loop never gets past a detected chapter whose start time
\* is less than or equal to its predecessor's, and where the loop raises past
\* validation it is the InvalidFormat error for such a pair and no document is
\* returned.
C3_MonotonicChapters ==
    /\ Returned =>
          \A n \in 1..(Len(document) - 1) : StartsIncrease(document[n], document[n + 1])
    /\ Detected =>
          \A n \in 1..(Len(chapters_metadata) - 1) :
              ~StartsIncrease(chapters_metadata[n], chapters_metadata[n + 1])
                  => (~Returned /\ i <= n)
    /\ (pc = "raised" /\ chapters_metadata # <<>>) =>
          /\ error = FormatError(MonotonicMsg)
          /\ i < Len(chapters_metadata)
          /\ ~StartsIncrease(chapters_metadata[i], chapters_metadata[i + 1])
          /\ document = <<>>

\* the parse raised at the second pair of chapters, whose start times are equal
C3_Witness ==
    /\ pc = "raised"
    /\ Len(chapters_metadata) = 3
    /\ i = 2
    /\ chapters_metadata[2].start_time = chapters_metadata[3].start_time
    /\ error = FormatError(MonotonicMsg)

\* ---- C4
\* the non-blank lines of the input
InputLines == NonBlank(SplitLines(raw_transcript))

\* the lowest-numbered violated rule, 0 when none is
FirstViolatedRule ==
    LET lines == InputLines
    IN  IF Len(lines) < 1 THEN 1
        ELSE IF Len(lines) < 3 THEN 2
        ELSE IF IsTimestampLine(lines[1]) THEN 3
        ELSE IF ~IsTimestampLine(lines[2]) THEN 4
        ELSE IF IsTimestampLine(lines[3]) THEN 5
        ELSE 0

RuleError ==
    <<EmptyError,
      FormatError("File must have at least 3 lines: chapter title, timestamp, transcript"),
      FormatError("First line must be chapter title, not timestamp"),
      FormatError("Second line must be a timestamp"),
      FormatError("Third line must be transcript text, not timestamp")>>

Validated == pc \notin {"start", "sanitized", "codec_start", "formatted",
                        "reparsed", "codec_raised"}

\* C4: once validation has run, an input violating some rule has raised the
\* error of its lowest-numbered violated rule, with no chapters and no
\* document; an input violating none has raised none of the five.
C4_ValidationOrder ==
    Validated =>
        LET rule == FirstViolatedRule
        IN  IF rule = 0
            THEN \A r \in 1..5 : error # RuleError[r]
            ELSE /\ pc = "raised"
                 /\ error = RuleError[rule]
                 /\ chapters_metadata = <<>>
                 /\ new_chapters = <<>>
                 /\ document = <<>>

\* an input violating rules 3, 4 and 5 raised the error of rule 3
C4_Witness ==
    /\ pc = "raised"
    /\ Len(InputLines) >= 3
    /\ IsTimestampLine(InputLines[1])
    /\ ~IsTimestampLine(InputLines[2])
    /\ IsTimestampLine(InputLines[3])
    /\ error = RuleError[3]

\* ---- C5
\* the timestamp lines of chapter n's window, and the j-th of them
WindowTs(n) == TsLines \cap Window(n)

NthOf(S, j) == CHOOSE k \in S : Cardinality({x \in S : x < k}) = j - 1

InChapter(l, n) ==
    \E j \in 1..Len(document[n].transcript_lines) : document[n].transcript_lines[j] = l

AllTranscriptLines ==
    UNION { { document[n].transcript_lines[j] :
              j \in 1..Len(document[n].transcript_lines) } : n \in 1..Len(document) }

IsTitleLine(k) ==
    \E n \in 1..Len(chapters_metadata) : chapters_metadata[n].title_index = k

WindowsOf(k) == {n \in 1..Len(chapters_metadata) : k \in Window(n)}

\* C6 as stated: every normalized line after the opening title lies in
\* exactly one chapter's window.
C6_CoverageAll ==
    Returned =>
        \A k \in 2..Len(transcript_lines) : Cardinality(WindowsOf(k)) = 1

\* C6 as amended: every normalized line after the opening title that is not
\* the title line of a chapter lies in exactly one chapter's window; a
\* chapter's title line lies in none.
C6_CoverageExceptTitles ==
    Returned =>
        \A k \in 2..Len(transcript_lines) :
            Cardinality(WindowsOf(k)) = (IF IsTitleLine(k) THEN 0 ELSE 1)

\* a returned document of three chapters: two title lines after the opening
C6_Witness ==
    /\ Returned
    /\ Cardinality({k \in 2..Len(transcript_lines) : IsTitleLine(k)}) = 2
    /\ Len(document) = 3

\* ---- C7
\* C7 as stated: every line of a gap of other than 2 lines between adjacent
\* timestamps is the text of a TranscriptLine of the chapter open there.
C7_GapLinesAreContent ==
    Returned =>
        \A p \in AdjacentTs :
            Gap(p) # 2 =>
                \A k \in (p[1] + 1)..(p[2] - 1) :
                    \E n \in WindowsOf(p[1]) :
                        \E j \in 1..Len(document[n].transcript_lines) :
                            document[n].transcript_lines[j].text = transcript_lines[k]

\* ---- C8
\* the text the pairing rule gives the timestamp line k of chapter n
PairedText(n, k) ==
    IF (k + 1) \in Window(n) /\ (k + 1) \notin TsLines
    THEN transcript_lines[k + 1]
    ELSE <<>>

\* C8: a chapter's transcript_lines are, in order, one TranscriptLine per
\* timestamp line of its window: with the next line as text when that line is
\* in the window and is no timestamp, with empty text when the next line is a
\* timestamp or the window ends.
C8_PairingRule ==
    Returned =>
        \A n \in 1..Len(document) :
            /\ Len(document[n].transcript_lines) = Cardinality(WindowTs(n))
            /\ \A j \in 1..Cardinality(WindowTs(n)) :
                  LET k == NthOf(WindowTs(n), j)
                  IN  document[n].transcript_lines[j]
                          = [timestamp |-> Parse(transcript_lines[k]),
                             text |-> PairedText(n, k)]

\* a returned chapter with a paired text, an empty text before another line
\* and an empty text at its end
C8_Witness ==
    /\ Returned
    /\ \E n \in 1..Len(document) :
          LET tl == document[n].transcript_lines
          IN  /\ \E j \in 1..Len(tl) : tl[j].text # <<>>
              /\ \E j \in 1..(Len(tl) - 1) : tl[j].text = <<>>
              /\ tl[Len(tl)].text = <<>>
              /\ transcript_lines[Len(transcript_lines)] \in
                    {transcript_lines[k] : k \in TsLines}

\* ---- C9
\* C9: in a returned document every chapter but the last ends where the next
\* starts, at a finite time, and the last ends at +infinity.
C9_EndTimes ==
    Returned =>
        /\ \A n \in 1..(Len(document) - 1) :
              /\ document[n].end_time = document[n + 1].start_time
              /\ IsFinite(document[n].end_time)
        /\ Len(document) >= 1
        /\ document[Len(document)].end_time = inf

\* a returned document of three chapters
C9_Witness ==
    /\ Returned
    /\ Len(document) = 3
    /\ document[3].end_time = inf
    /\ document[1].end_time # document[2].end_time

\* ---- C10
\* C10: the detected chapters are in strictly increasing order of title line;
\* the first is the opening chapter (title the first line, start time the value
\* of the second line); the returned document keeps them in that order.
C10_ChapterOrder ==
    Detected =>
        /\ Len(chapters_metadata) >= 1
        /\ chapters_metadata[1].title_index = 1
        /\ chapters_metadata[1].title = transcript_lines[1]
        /\ chapters_metadata[1].start_time = Parse(transcript_lines[2])
        /\ \A n \in 1..(Len(chapters_metadata) - 1) :
              chapters_metadata[n].title_index < chapters_metadata[n + 1].title_index
        /\ Returned =>
              /\ Len(document) = Len(chapters_metadata)
              /\ \A n \in 1..Len(document) :
                    /\ document[n].title = transcript_lines[chapters_metadata[n].title_index]
                    /\ document[n].start_time = chapters_metadata[n].start_time

\* a returned document whose opening chapter is followed by Rule B chapters
C10_Witness ==
    /\ Returned
    /\ Len(document) >= 2
    /\ document[1].title = transcript_lines[1]
    /\ document[2].title # transcript_lines[1]

\* ---- C11
AllDigits(s) == \A k \in 1..Len(s) : IsDigit(s[k])

\* the number a string of digits denotes, read from the left
RECURSIVE DecimalFrom(_, _)
DecimalFrom(s, acc) ==
    IF s = <<>> THEN acc ELSE DecimalFrom(Tail(s), acc * 10 + DigitVal(Head(s)))

DecimalValue(s) == DecimalFrom(s, 0)

\* a two-digit field with value 00-59
IsMinSec(p) == Len(p) = 2 /\ AllDigits(p) /\ DecimalValue(p) <= 59

\* the grammar: 1-2 digits ':' seconds, or 1-3 digit hours ':' minutes ':' seconds
InGrammar(t) ==
    LET parts == SplitColon(t)
    IN  \/ /\ Len(parts) = 2
            /\ Len(parts[1]) \in 1..2 /\ AllDigits(parts[1])
            /\ IsMinSec(parts[2])
        \/ /\ Len(parts) = 3
            /\ Len(parts[1]) \in 1..3 /\ AllDigits(parts[1])
            /\ IsMinSec(parts[2])
            /\ IsMinSec(parts[3])

ParseFinished == pc \in {"parsed", "parse_raised"}

C12_ParsedValue ==
    pc = "parsed" =>
        LET parts == SplitColon(Strip(timestamp_str))
            n == Len(parts)
            hours == IF n = 3 THEN DecimalValue(parts[1]) ELSE 0
            minutes == DecimalValue(parts[n - 1])
            secs == DecimalValue(parts[n])
        IN  /\ IsFinite(parsed.value)
            /\ parsed.value.num
                  = (hours * 3600 + minutes * 60 + secs) * SubSecond
            /\ parsed.value.num >= 0
            /\ parsed.value.num % SubSecond = 0

\* 123:59:00 was parsed to 123 hours and 59 minutes
C12_Witness ==
    /\ pc = "parsed"
    /\ Strip(timestamp_str) = <<"1", "2", "3", ":", "5", "9", ":", "0", "0">>
    /\ parsed.value = FloatOfInt(446340)

\* ---- C13
\* p is n written in decimal without padding
Unpadded(p, n) ==
    /\ Len(p) >= 1
    /\ AllDigits(p)
    /\ DecimalValue(p) = n
    /\ Len(p) > 1 => p[1] # "0"

\* p is n written in two decimal digits
Padded2(p, n) == Len(p) = 2 /\ AllDigits(p) /\ DecimalValue(p) = n

\* C13: for finite s >= 0, with t the whole seconds of s (never more than
\* s), the output is H:MM:SS (hours unpadded, minutes and seconds in two
\* digits) when t div 3600 > 0, and M:SS (minutes unpadded, seconds in two
\* digits) otherwise.
C13_FormatAlgorithm ==
    pc \in {"formatted", "reparsed", "codec_raised"} =>
        LET t == seconds.num \div SubSecond
            h == t \div 3600
            parts == SplitColon(formatted.value)
        IN  /\ formatted.err = NoError
            /\ t * SubSecond <= seconds.num /\ seconds.num < (t + 1) * SubSecond
            /\ IF h > 0
               THEN /\ Len(parts) = 3
                    /\ Unpadded(parts[1], h)
                    /\ Padded2(parts[2], (t % 3600) \div 60)
                    /\ Padded2(parts[3], t % 60)
               ELSE /\ Len(parts) = 2
                    /\ Unpadded(parts[1], t \div 60)
                    /\ Padded2(parts[2], t % 60)

\* 1 hour 9 minutes 59 seconds and a fraction was rendered as 1:09:59
C13_Witness ==
    /\ pc = "formatted"
    /\ seconds.num % SubSecond # 0
    /\ formatted.value = <<"1", ":", "0", "9", ":", "5", "9">>

\* ---- C14
\* C14: seconds_to_timestamp raises ValueError for every negative value
\* (those between -1 and 0 too), for +inf, -inf and NaN, and for no finite
\* value >= 0.
C14_RejectsBadArguments ==
    pc # "codec_start" =>
        LET bad == seconds.kind # "fin" \/ seconds.num < 0
        IN  /\ bad <=> formatted.err.kind = "ValueError"
            /\ bad => pc = "codec_raised" /\ error.kind = "ValueError"
            /\ ~bad => formatted.err = NoError

\* a value between -1 and 0 was rejected
C14_Witness ==
    /\ pc = "codec_raised"
    /\ seconds.kind = "fin"
    /\ seconds.num < 0
    /\ seconds.num > 0 - SubSecond
    /\ error.kind = "ValueError"

\* ---- C15
\* code point of a character of a timestamp
CharOrd(c) == IF c = ":" THEN 58 ELSE 48 + DigitVal(c)

\* a <= b on Python strings: lexicographic by code point
RECURSIVE StrLessEq(_, _)
StrLessEq(a, b) ==
    IF a = <<>> THEN TRUE
    ELSE IF b = <<>> THEN FALSE
    ELSE IF Head(a) = Head(b) THEN StrLessEq(Tail(a), Tail(b))
    ELSE CharOrd(Head(a)) < CharOrd(Head(b))

HasHours(x) == IntOfFloat(x) >= 3600

PairOrdered ==
    /\ pc = "pair_done"
    /\ seconds.num < seconds_b.num
    /\ HasHours(seconds) = HasHours(seconds_b)

\* C15 as stated: for 0 <= s1 < s2 both rendered M:SS or both H:MM:SS, the
\* first output never compares greater than the second as a string.
C15_MonotonicInBucket ==
    PairOrdered => StrLessEq(formatted.value, formatted_b.value)

\* C15 as amended: for 0 <= s1 < s2 both rendered M:SS or both H:MM:SS with
\* outputs of the same length, the first output never compares greater than
\* the second as a string.
C15_MonotonicSameLength ==
    (PairOrdered /\ Len(formatted.value) = Len(formatted_b.value))
        => StrLessEq(formatted.value, formatted_b.value)

\* 1:59 and 2:00 were compared
C15_Witness ==
    /\ pc = "pair_done"
    /\ formatted.value = <<"1", ":", "5", "9">>
    /\ formatted_b.value = <<"2", ":", "0", "0">>
    /\ seconds.num < seconds_b.num

\* ---- C16
\* no two adjacent characters of the line are whitespace
NoWhitespaceRun(line) ==
    \A k \in 1..(Len(line) - 1) :
        ~(line[k] \in Whitespace /\ line[k + 1] \in Whitespace)

\* C16: sanitizing a sanitized text changes nothing, and a sanitized text
\* has no blank line, no line with leading or trailing whitespace and no run
\* of two or more whitespace characters inside a line.
C16_SanitizeIdempotent ==
    /\ pc = "resanitized" => resanitized = sanitized_transcript
    /\ pc \in {"sanitized", "resanitized"} =>
          LET lines == SplitLines(sanitized_transcript)
          IN  \A k \in 1..Len(lines) :
                  /\ Strip(lines[k]) # <<>>
                  /\ Strip(lines[k]) = lines[k]
                  /\ NoWhitespaceRun(lines[k])

\* a text with a tab next to a space inside a line and a second line was
\* sanitized twice
C16_Witness ==
    /\ pc = "resanitized"
    /\ raw_transcript = <<"a", "\t", " ", "a", "\r", "a">>
    /\ sanitized_transcript = <<"a", " ", "a", "\n", "a">>

\* ---- C17
\* the start time of each chapter followed by the timestamps of its lines
RECURSIVE TimesOfChapters(_)
TimesOfChapters(chapters) ==
    IF chapters = <<>> THEN <<>>
    ELSE <<Head(chapters).start_time>>
         \o [j \in 1..Len(Head(chapters).transcript_lines) |->
                Head(chapters).transcript_lines[j].timestamp]
         \o TimesOfChapters(Tail(chapters))

\* C17: emitting a document returned by parse_transcript_document never
\* raises; seconds_to_timestamp is given exactly the chapters' start times
\* and the lines' timestamps, all finite and >= 0, and never an end time.
C17_EndTimeNeverFormatted ==
    pc \in {"emitted", "emit_raised"} =>
        /\ pc = "emitted"
        /\ xml.err = NoError
        /\ [k \in 1..Len(xml.calls) |-> xml.calls[k].value] = TimesOfChapters(document)
        /\ \A k \in 1..Len(xml.calls) :
              /\ xml.calls[k].attr \in {"start_time", "timestamp"}
              /\ IsFinite(xml.calls[k].value)
              /\ xml.calls[k].value.num >= 0

\* a document of two chapters, the last one ending at infinity, was emitted
C17_Witness ==
    /\ pc = "emitted"
    /\ Len(document) >= 2
    /\ document[Len(document)].end_time = inf
    /\ Len(xml.calls) > Len(document)

BothRun == legacy.run /\ pc \in {"returned", "raised"}

\* the new path's lines of chapter n as alternating timestamp and text lines
Rendered(n) == _format_transcript_lines(document[n].transcript_lines).value

\* both paths raise the same kind of error, or both return as many chapters
\* with the same start and end times
SameOutcome ==
    IF pc = "raised" THEN legacy.err.kind = error.kind
    ELSE /\ legacy.err = NoError
         /\ Len(legacy.value) = Len(document)
         /\ \A n \in 1..Len(document) :
               /\ legacy.value[n].start_time = document[n].start_time
               /\ legacy.value[n].end_time = document[n].end_time

AlternatingCanonical(lines) ==
    /\ Len(lines) % 2 = 0
    /\ \A k \in 1..Len(lines) :
          IF k % 2 = 1
          THEN /\ IsTimestampLine(lines[k])
               /\ seconds_to_timestamp(Parse(lines[k])).value = lines[k]
          ELSE /\ ~IsTimestampLine(lines[k])
               /\ Join(<<" ">>, SplitWords(lines[k])) = lines[k]

CliFinished == pc \in {"cli_done", "cli_exited", "cli_crashed"}

\* the argument is a path to a readable UTF-8 file holding a valid transcript
ValidFileGiven ==
    /\ ~is_youtube_url(user_input)
    /\ file_state = "readable"
    /\ parse_transcript_file(raw_transcript).err = NoError

\* C20: given a path to a readable UTF-8 file holding a valid transcript,
\* main ends with exit status 0 after one execution of _save_xml_output that
\* wrote <input stem>.xml in the working directory.
C20_CliSuccess ==
    (CliFinished /\ ValidFileGiven /\ output_writable) =>
        /\ exit_status = 0
        /\ saved = 1
        /\ (PathStem(user_input) \o DotXml) \in cwd_files

\* ---- C21 (SpecCli)
\* the failures the command reports: the file could not be read, the parse
\* raised FileEmptyError or FileInvalidFormatError, or the URL processing
\* raised one of the URL errors
ReadFailed ==
    /\ ~is_youtube_url(user_input)
    /\ file_state # "readable"
    /\ pc \notin {"cli_start", "cli_file"}

ReportedFailure ==
    \/ ReadFailed
    \/ error.kind \in {"FileEmptyError", "FileInvalidFormatError"} \cup URLErrors

\* C21: once reading the file has failed, or the parse has raised
\* FileEmptyError or FileInvalidFormatError, or the URL processing has
\* raised a URL error, the process has ended with exit status 1,
\* _save_xml_output has not been executed, and the working directory holds
\* no file besides the log file
C21_FailureExitsWithoutSaving ==
    ReportedFailure =>
        /\ pc = "cli_exited"
        /\ exit_status = 1
        /\ saved = 0
        /\ cwd_files \subseteq {LOG_FILE}

\* a file of the wrong format has been reported and the process has ended
C21_Witness ==
    /\ error.kind = "FileInvalidFormatError"
    /\ Len(raw_transcript) > 0
    /\ pc = "cli_exited"
    /\ exit_status = 1

\* ---- C23
\* the chapters' transcript_lines, one list after the other
RECURSIVE ConcatLines(_)
ConcatLines(chapters) ==
    IF chapters = <<>> THEN <<>>
    ELSE Head(chapters).transcript_lines \o ConcatLines(Tail(chapters))

\* C23: in a returned document the chapters' transcript_lines, taken one
\* chapter after the other, have one entry per timestamp line of the
\* normalized input, in the input's order: the k-th entry's timestamp is the
\* value of the k-th timestamp line.
C23_OneEntryPerTimestampLine ==
    Returned =>
        LET all == ConcatLines(document)
            T == TsLines
        IN  /\ Len(all) = Cardinality(T)
            /\ \A k \in 1..Len(all) :
                  all[k].timestamp = Parse(transcript_lines[NthOf(T, k)])

\* a returned document of two chapters or more, with two adjacent timestamp
\* lines and four timestamp lines or more in all
C23_Witness ==
    /\ Returned
    /\ Len(document) >= 2
    /\ Len(ConcatLines(document)) >= 4
    /\ \E p \in AdjacentTs : Gap(p) = 0

\* ---- C24
\* the lines at which a chapter starts, by the input alone: the first
\* timestamp line and every timestamp line that follows the timestamp line
\* before it at a distance of exactly 2 lines
ChapterStartLines(lines) ==
    LET T == {k \in 1..Len(lines) : IsTimestampLine(lines[k])}
    IN  {b \in T : \/ \A a \in T : b <= a
                   \/ \E a \in T : /\ b - a - 1 = 2
                                   /\ ~\E c \in T : a < c /\ c < b}

StartsStrictlyIncreasing ==
    LET lines == InputLines
        S == ChapterStartLines(lines)
    IN  \A a \in S : \A b \in S :
            a < b => FloatLess(Parse(lines[a]), Parse(lines[b]))

ParseEnded == pc \in {"returned", "raised"}

\* C24: a parse returns a document exactly when the input violates none of
\* the five validation rules and its chapters' start times strictly
\* increase; a parse that raises raises FileEmptyError or
\* FileInvalidFormatError; and no step of a parse raises the error of a
\* malformed timestamp or any other exception.
C24_ExactSuccessCondition ==
    /\ ParseEnded =>
          /\ Returned <=> (FirstViolatedRule = 0 /\ StartsStrictlyIncreasing)
          /\ pc = "raised" =>
                error.kind \in {"FileEmptyError", "FileInvalidFormatError"}
          /\ Returned => error = NoError
    /\ error.msg # InvalidTimestamp(<<>>).msg
    /\ error.kind \in {"none", "FileEmptyError", "FileInvalidFormatError"}

\* a parse that passed validation and raised for chapter start times that do
\* not increase, and whose lines include a timestamp with a space before it
C24_Witness ==
    /\ pc = "raised"
    /\ FirstViolatedRule = 0
    /\ ~StartsStrictlyIncreasing
    /\ \E k \in 1..Len(InputLines) :
          IsTimestampLine(InputLines[k]) /\ Head(InputLines[k]) = " "

\* ---- C25
\* C25: every chapter of a returned document has at least one TranscriptLine,
\* and the timestamp of its first TranscriptLine is the chapter's start_time.
C25_ChaptersAnchored ==
    Returned =>
        \A n \in 1..Len(document) :
            /\ Len(document[n].transcript_lines) >= 1
            /\ document[n].transcript_lines[1].timestamp = document[n].start_time

\* a returned document of two chapters or more, one of which holds a later
\* line with another timestamp than its start_time
C25_Witness ==
    /\ Returned
    /\ Len(document) >= 2
    /\ \E n \in 1..Len(document) : \E j \in 2..Len(document[n].transcript_lines) :
          document[n].transcript_lines[j].timestamp # document[n].start_time

\* ---- C26
\* the places of a returned document that hold a line's text: the entries
\* <<n, j>> whose text is not empty
TextPlaces ==
    {p \in (1..Len(document)) \X (1..Len(transcript_lines)) :
        /\ p[2] <= Len(document[p[1]].transcript_lines)
        /\ document[p[1]].transcript_lines[p[2]].text # <<>>}

TextAt(p) == document[p[1]].transcript_lines[p[2]].text

\* C26: in a returned document no chapter title and no TranscriptLine text
\* matches the timestamp grammar, every title and every text is a line of the
\* normalized input that is not a timestamp line, and no such line is used
\* twice: not as the title of two chapters, not as the text of two
\* TranscriptLines, not as a title and a text.  (The non-timestamp lines of
\* the inputs differ from one another, so a line is known by its content.)
C26_DisjointRoles ==
    Returned =>
        LET NonTs == {transcript_lines[k] : k \in (1..Len(transcript_lines)) \ TsLines}
            P == TextPlaces
        IN  /\ \A n \in 1..Len(document) :
                  /\ ~IsTimestampLine(document[n].title)
                  /\ document[n].title \in NonTs
                  /\ \A m \in 1..Len(document) :
                        document[m].title = document[n].title => m = n
                  /\ \A p \in P : TextAt(p) # document[n].title
            /\ \A p \in P :
                  /\ ~IsTimestampLine(TextAt(p))
                  /\ TextAt(p) \in NonTs
                  /\ \A q \in P : TextAt(q) = TextAt(p) => q = p

\* a returned document with a Rule B chapter whose title line follows a text
\* line of the chapter before it
C26_Witness ==
    /\ Returned
    /\ \E n \in 2..Len(document) :
          LET prev == document[n - 1].transcript_lines
              t == chapters_metadata[n].title_index
          IN  /\ prev[Len(prev)].text # <<>>
              /\ prev[Len(prev)].text = transcript_lines[t - 1]
              /\ document[n].title = transcript_lines[t]

\* ---- C22 (SpecAssign)
Assigned == pc = "assigned"

\* the provider's chapters start at strictly increasing times
DictsIncrease ==
    \A k \in 1..(Len(chapter_dicts) - 1) :
        FloatLess(chapter_dicts[k].start_time, chapter_dicts[k + 1].start_time)

\* C22: every Chapter that _assign_transcript_lines_to_chapters returns has
\* start_time < end_time, and a list of chapters whose start times do not
\* strictly increase ends in an error, with no chapters returned.
C22_StartBeforeEnd ==
    Assigned =>
        /\ \A n \in 1..Len(url_chapters) :
              FloatLess(url_chapters[n].start_time, url_chapters[n].end_time)
        /\ ~DictsIncrease => (error # NoError /\ url_chapters = <<>>)

\* ---- C27 (SpecAssign)
\* the chapters that hold the k-th line, and how often chapter n holds it
HoldersOf(k) ==
    {n \in 1..Len(url_chapters) :
        \E j \in 1..Len(url_chapters[n].transcript_lines) :
            url_chapters[n].transcript_lines[j] = url_transcript_lines[k]}

TimesHeld(n, k) ==
    Cardinality({j \in 1..Len(url_chapters[n].transcript_lines) :
                    url_chapters[n].transcript_lines[j] = url_transcript_lines[k]})

\* the place in the transcript of a line (the lines differ from one another)
PlaceOf(line) ==
    CHOOSE k \in 1..Len(url_transcript_lines) : url_transcript_lines[k] = line

\* C27: for provider chapters with strictly increasing start times the
\* result has one Chapter per provider chapter, with its title and start
\* time, ending where the next starts (the last at infinity); a line whose
\* timestamp is below the first start is in no chapter; any other line is
\* once in exactly one chapter, the one with start <= timestamp < end; and a
\* chapter's lines stand in their order in the transcript.  For an empty
\* chapter list the result is one chapter titled with the video title,
\* from 0 to infinity, holding all the lines.
C27_AssignedByTime ==
    Assigned =>
        IF chapter_dicts = <<>>
        THEN url_chapters = << [title |-> url_metadata.video_title,
                                start_time |-> FloatOfInt(0),
                                end_time |-> inf,
                                transcript_lines |-> url_transcript_lines] >>
        ELSE DictsIncrease =>
            /\ Len(url_chapters) = Len(chapter_dicts)
            /\ \A n \in 1..Len(url_chapters) :
                  /\ url_chapters[n].title = chapter_dicts[n].title
                  /\ url_chapters[n].start_time = chapter_dicts[n].start_time
                  /\ url_chapters[n].end_time =
                        (IF n < Len(chapter_dicts) THEN chapter_dicts[n + 1].start_time
                         ELSE inf)
                  /\ \A j \in 1..(Len(url_chapters[n].transcript_lines) - 1) :
                        PlaceOf(url_chapters[n].transcript_lines[j])
                            < PlaceOf(url_chapters[n].transcript_lines[j + 1])
            /\ \A k \in 1..Len(url_transcript_lines) :
                  LET ts == url_transcript_lines[k].timestamp
                  IN  IF FloatLess(ts, chapter_dicts[1].start_time)
                      THEN HoldersOf(k) = {}
                      ELSE \E n \in 1..Len(url_chapters) :
                              /\ HoldersOf(k) = {n}
                              /\ TimesHeld(n, k) = 1
                              /\ FloatLessEq(url_chapters[n].start_time, ts)
                              /\ FloatLess(ts, url_chapters[n].end_time)

\* two chapters with increasing start times, a line before the first start, a
\* line at the second start, and a chapter holding two lines that stand in
\* the transcript with a later timestamp first
C27_Witness ==
    /\ Assigned
    /\ Len(chapter_dicts) >= 2
    /\ DictsIncrease
    /\ \E k \in 1..Len(url_transcript_lines) :
          FloatLess(url_transcript_lines[k].timestamp, chapter_dicts[1].start_time)
    /\ \E k \in 1..Len(url_transcript_lines) :
          url_transcript_lines[k].timestamp = chapter_dicts[2].start_time
    /\ \E n \in 1..Len(url_chapters) :
          LET lines == url_chapters[n].transcript_lines
          IN  Len(lines) >= 2 /\ FloatLess(lines[2].timestamp, lines[1].timestamp)

\* ---- C28 (SpecWalk)
WalkInRange ==
    /\ \A k \in walk_reads : InRange(walk_lines, k)
    /\ error = NoError
    /\ walk_i <= Len(walk_lines)
    /\ pc = "walk_done" =>
          /\ walk_i = Len(walk_lines)
          /\ walk_result =
                TranscriptLines(_convert_string_lines_to_transcript_objects(walk_lines))

WalkAdvances ==
    (pc = "walk" /\ walk_i < Len(walk_lines)) =>
        /\ walk_i' - walk_i \in {1, 2}
        /\ pc' = "walk"

\* C28: on every window of lines the walk reads raw_lines only at indices
\* below the window's length and raises nothing; every iteration adds 1 or 2
\* to the index; and the walk ends, with the index equal to the window's
\* length and the result the function returns.
C28_WalkTerminates ==
    /\ []WalkInRange
    /\ [][WalkAdvances]_vars
    /\ <>(pc = "walk_done" /\ walk_i = Len(walk_lines))

\* a walk that ended on a window of 4 lines or more after pairing a
\* timestamp with a text, giving a timestamp an empty text, and skipping a line
C28_Witness ==
    /\ pc = "walk_done"
    /\ Len(walk_lines) >= 4
    /\ walk_i = Len(walk_lines)
    /\ \E j \in 1..Len(walk_result) : walk_result[j].text # <<>>
    /\ \E j \in 1..Len(walk_result) : walk_result[j].text = <<>>
    /\ \E k \in 2..Len(walk_lines) :
          ~IsTimestampLine(walk_lines[k]) /\ ~IsTimestampLine(walk_lines[k - 1])

\* ---- C29 (SpecMap)
MapDone == pc = "mapped"

\* the classes of the seven patterns, in the order of the table: 429, bot
\* sign-in, unsupported url, incomplete youtube id, is not a valid url,
\* [youtube] invalid-url:, video unavailable
ClassesInOrder ==
    <<"URLRateLimitError", "URLBotProtectionError", "URLNotYouTubeError",
      "URLIncompleteError", "URLIsInvalidError", "URLIsInvalidError",
      "URLVideoUnavailableError">>

\* the patterns that occur in the lower-cased message
PatternsIn ==
    LET low == Lower(yt_dlp_error)
    IN  {k \in 1..Len(error_patterns) : Contains(low, error_patterns[k].pattern)}

ErrorPrefix == MapFragments[1]

\* the result is a URL error: that of the first pattern of the table that
\* occurs in the lower-cased message, with its class's default message, or,
\* when none occurs, URLUnmappedError with the message less a leading "ERROR: "
FirstPatternWins ==
    LET H == PatternsIn
    IN  /\ Len(error_patterns) = Len(ClassesInOrder)
        /\ mapped.kind \in URLErrors
        /\ IF H = {}
           THEN /\ mapped.kind = "URLUnmappedError"
                /\ IF /\ Len(yt_dlp_error) >= Len(ErrorPrefix)
                      /\ SubSeq(yt_dlp_error, 1, Len(ErrorPrefix)) = ErrorPrefix
                   THEN ErrorPrefix \o mapped.arg = yt_dlp_error
                   ELSE mapped.arg = yt_dlp_error
           ELSE LET k == CHOOSE h \in H : \A g \in H : h <= g
                IN  mapped = [kind |-> ClassesInOrder[k],
                              msg |-> DefaultMessage[ClassesInOrder[k]],
                              arg |-> <<>>]

\* the message is "[youtube] <id>: Video unavailable" for a video id, with
\* or without the prefix "ERROR: "
UnavailableForVideoId ==
    \E tag \in {MapFragments[9], MapFragments[10]} :
        \/ yt_dlp_error = tag \o MapFragments[8]
        \/ yt_dlp_error = ErrorPrefix \o tag \o MapFragments[8]

C30_CanonicalIdempotent ==
    /\ pc # "codec_raised"
    /\ pc \in {"formatted", "reparsed"} =>
          /\ formatted.err = NoError
          /\ InGrammar(formatted.value)
    /\ pc = "reparsed" =>
          /\ reparsed.err = NoError
          /\ reparsed.value = parsed.value

\* a string of two fields, with 60 minutes or more and whitespace around it,
\* was formatted with an hours field and parsed back to the same seconds
C30_Witness ==
    /\ pc = "reparsed"
    /\ Len(SplitColon(Strip(timestamp_str))) = 2
    /\ timestamp_str # Strip(timestamp_str)
    /\ Len(SplitColon(formatted.value)) = 3
    /\ reparsed.value = parsed.value

====
